---- MODULE Spec2Model ----
(***************************************************************************)
(* A model of the particle animation engine (ParticleSystem), its shader   *)
(* material (ParticleShaderMaterial) and the host's animation-frame queue, *)
(* of the PerformanceMonitor, of the SolarSystem as App creates it with    *)
(* its UIController and page events, and of the PresetManager with the     *)
(* browser's localStorage.                                                 *)
(*                                                                         *)
(* Numbers of the particle engine are fixed point:                         *)
(*   positions            1/100    (PosScale)                              *)
(*   elapsed time         1/10000                                          *)
(*   speed, sizes         1/10                                             *)
(*   angles               1/1000 radian                                    *)
(*   sines, colours, Math.random() draws, pointer   1/1000                 *)
(* Orbital angles of the SolarSystem are in 1/1000000 radian, wall-clock   *)
(* times in milliseconds; '#rrggbb' strings are byte triples.              *)
(***************************************************************************)
EXTENDS Integers, Sequences, FiniteSets, TLC

\* ------------------------------------------------------------------ bounds
\* Largest particle count a population is created with.
MaxParticles == 2
\* Largest id the host hands out for an animation-frame request.
MaxFrameId == 3
\* Largest number of populations (geometry objects) created in one run.
MaxPopulations == 2
\* Largest number of configuration calls (updateProperties, setPreset, pointer
\* events) the collaborators make in one run.
MaxCalls == 2

\* Largest id the host hands out for a frame request of the performance monitor.
MaxMonitorFrames == 10
\* Largest number of callbacks registered with the performance monitor.
MaxCallbacks == 2
\* Animation frames the solar system may request.
MaxSolarFrames == 4
\* Idle periods of PauseMs the wall clock may pass through.
MaxWaits == 2
\* Presets of the user the store may hold.
MaxUserPresets == 2
\* Calls of the preset manager.
MaxPresetCalls == 4

\* ------------------------------------------------------------- arithmetic
Pi == 3142
TwoPi == 6283
HalfPi == 1571

Abs(a) == IF a < 0 THEN -a ELSE a
Max(a, b) == IF a > b THEN a ELSE b

\* Division of a by b > 0 rounding toward zero.
Div(a, b) == IF a >= 0 THEN a \div b ELSE -((-a) \div b)

\* Integer square root by bisection on [lo, hi].
RECURSIVE SqrtIn(_, _, _)
SqrtIn(n, lo, hi) ==
    IF lo >= hi THEN lo
    ELSE LET mid == (lo + hi + 1) \div 2
         IN  IF mid * mid <= n THEN SqrtIn(n, mid, hi) ELSE SqrtIn(n, lo, mid - 1)

\* Math.sqrt on integers (n >= 0, n < 2^31).
Sqrt(n) == SqrtIn(n, 0, 46340)

\* sin on [0, Pi], in thousandths (Bhaskara's rational approximation).
SinHalf(x) ==
    LET p == (x * (Pi - x)) \div 1000
    IN  (16000 * p) \div (49348 - 4 * p)

\* Math.sin of an angle in milliradians, in thousandths.
Sin(a) ==
    LET x == a % TwoPi
    IN  IF x <= Pi THEN SinHalf(x) ELSE -SinHalf(x - Pi)

\* Math.cos of an angle in milliradians, in thousandths.
Cos(a) == Sin(a + HalfPi)

\* Math.sin of an angle in milliradians, in ten-thousandths.
SinFine(a) ==
    LET x == a % TwoPi
        y == IF x <= Pi THEN x ELSE x - Pi
        p == (y * (Pi - y)) \div 1000
        s == (160000 * p) \div (49348 - 4 * p)
    IN  IF x <= Pi THEN s ELSE -s

\* Math.cos of an angle in milliradians, in ten-thousandths: the point
\* (cos, sin) lies on the unit circle.
CosFine(a) ==
    LET x == a % TwoPi
        s == SinFine(a)
        c == Sqrt(100000000 - s * s)
    IN  IF x <= HalfPi \/ x >= Pi + HalfPi THEN c ELSE -c

\* atan of a ratio z in [0, 1000] (thousandths), in milliradians.
AtanUnit(z) == (z * (785 + (273 * (1000 - z)) \div 1000)) \div 1000

\* Math.atan2(y, x) in milliradians, in (-Pi, Pi].
Atan2(y, x) ==
    LET ax == Abs(x)
        ay == Abs(y)
        first == IF ax = 0 /\ ay = 0 THEN 0
                 ELSE IF ay <= ax THEN AtanUnit((ay * 1000) \div ax)
                 ELSE HalfPi - AtanUnit((ax * 1000) \div ay)
        upper == IF x >= 0 THEN first ELSE Pi - first
    IN  IF y >= 0 THEN upper ELSE -upper

\* Math.acos of x in [-1000, 1000] (thousandths), in milliradians.
Acos(x) == Atan2(Sqrt(1000000 - x * x), x)

\* -------------------------------------------------------------- constants
\* this.time += 0.016 * this.speed: 16 time units per tenth of speed.
TimeStep == 16
\* Position units per 1.0.
PosScale == 100

\* THREE.Color values, channels in thousandths.
Red == <<1000, 420, 420>>
Teal == <<306, 804, 769>>
Indigo == <<400, 494, 918>>

KnownShapes == {"circle", "square", "star", "heart"}

KnownPresets == {"galaxy", "nebula", "explosion", "wave", "spiral", "aurora"}
Presets == KnownPresets \cup {"default", "vortex"}

ParticleCounts == 1 .. MaxParticles
PointerPositions == {<<-1000, 300>>, <<300, 300>>}

\* One particle's Math.random() results in createParticles, in call order,
\* each in thousandths.
DrawNear ==
    [radius |-> 0, theta |-> 0, phi |-> 500, vx |-> 0, vy |-> 500, vz |-> 999,
     blend |-> 0, size |-> 0, phase |-> 0]
DrawFar ==
    [radius |-> 750, theta |-> 250, phi |-> 250, vx |-> 999, vy |-> 0, vz |-> 500,
     blend |-> 500, size |-> 500, phase |-> 250]

\* The Math.random() results of one createParticles call with count particles:
\* the two draws alternate, starting with either.
Populations(count) ==
    {[i \in 1 .. count |-> IF (i + k) % 2 = 0 THEN DrawNear ELSE DrawFar] : k \in 0 .. 1}

\* ------------------------------------------------------------ THREE.Color
\* Color.lerpColors(c1, c2, alpha), alpha in thousandths.
lerpColors(c1, c2, alpha) ==
    [k \in 1 .. 3 |-> c1[k] + Div((c2[k] - c1[k]) * alpha, 1000)]

\* ---------------------------------------------------------- THREE.Vector3
Length(v) == Sqrt(v[1] * v[1] + v[2] * v[2] + v[3] * v[3])

\* Vector3.normalize(): divideScalar(length || 1); components in thousandths.
normalize(v) ==
    LET len == Length(v)
    IN  IF len = 0 THEN v ELSE [k \in 1 .. 3 |-> Div(v[k] * 1000, len)]

\* ------------------------------------------------- ParticleShaderMaterial
\* Names every object literal inherits from Object.prototype.
ObjectPrototypeNames ==
    {"constructor", "toString", "valueOf", "hasOwnProperty", "isPrototypeOf",
     "propertyIsEnumerable", "toLocaleString", "__proto__"}

\* Stands for the value (a function or an object, truthy and not a number)
\* that shapeMap[shapeName] gives for a name shapeMap inherits.
InheritedMember == -1

\* ParticleShaderMaterial.getShapeType: shapeMap[shapeName] || 0, with shapeMap
\* an object literal.
getShapeType(shapeName) ==
    CASE shapeName = "circle" -> 0
      [] shapeName = "square" -> 1
      [] shapeName = "star" -> 2
      [] shapeName = "heart" -> 3
      [] shapeName \in ObjectPrototypeNames -> InheritedMember
      [] OTHER -> 0

\* The uniforms of new ParticleShaderMaterial(options): size || 2.0 and
\* shape || 'circle'.
NewMaterial(options) ==
    [time |-> 0,
     globalSize |-> IF options.size = 0 THEN 20 ELSE options.size,
     baseColor |-> options.baseColor,
     accentColor |-> options.accentColor,
     shapeType |-> getShapeType(IF options.shape = "" THEN "circle" ELSE options.shape)]

\* ParticleShaderMaterial.updateTime.
updateTime(u, t) == [u EXCEPT !.time = t]

\* ParticleShaderMaterial.updateProperties({baseColor, accentColor, size}): the
\* engine always passes the two colours and the size, and never a shape.
materialUpdateProperties(u, properties) ==
    [u EXCEPT !.baseColor = properties.baseColor,
              !.accentColor = properties.accentColor,
              !.globalSize = properties.size]

\* -------------------------------------------------------- createParticles
\* The position of a particle drawn as d: spherical distribution.
DrawPosition(d) ==
    LET radius == d.radius * 8 + 20 * PosScale
        theta == (d.theta * TwoPi) \div 1000
        phi == Acos(2 * d.phi - 1000)
        rs == Div(radius * Sin(phi), 1000)
    IN  <<Div(rs * Cos(theta), 1000),
          Div(rs * Sin(theta), 1000),
          Div(radius * Cos(phi), 1000)>>

\* The velocity of a particle drawn as d, in 1/100000.
DrawVelocity(d) == <<(d.vx - 500) * 2, (d.vy - 500) * 2, (d.vz - 500) * 2>>

\* The flat array (three values a particle) of a sequence of triples.
Flat3(triples) ==
    [k \in 1 .. 3 * Len(triples) |-> triples[((k - 1) \div 3) + 1][((k - 1) % 3) + 1]]

\* ParticleSystem.createParticles with the given Math.random() results.
createParticles(w, draws) ==
    LET n == w.particleCount
    IN  [w EXCEPT
          !.particleGeometry = @ + 1,
          !.populationDisposed = FALSE,
          !.position = Flat3([i \in 1 .. n |-> DrawPosition(draws[i])]),
          !.color = Flat3([i \in 1 .. n |->
                        lerpColors(w.baseColor, w.accentColor, draws[i].blend)]),
          !.size = [i \in 1 .. n |-> (draws[i].size * w.particleSize) \div 100 + 50],
          !.velocity = Flat3([i \in 1 .. n |-> DrawVelocity(draws[i])]),
          !.phase = [i \in 1 .. n |-> (draws[i].phase * TwoPi) \div 1000],
          !.positionVersion = 0,
          !.colorVersion = 0,
          !.uniforms = NewMaterial([baseColor |-> w.baseColor,
                                    accentColor |-> w.accentColor,
                                    size |-> w.particleSize,
                                    shape |-> w.particleShape])]

\* ------------------------------------------------------ preset animations
\* Each takes the position (a triple), the particle's index (from 0) and the
\* elapsed time, and gives the position after the preset's motion.

applyGalaxyAnimation(position, index, time) ==
    LET distance == Sqrt(position[1] * position[1] + position[3] * position[3])
        angle == Atan2(position[3], position[1])
        newAngle == angle + Div(time, distance + 10000)
    IN  <<Div(distance * Cos(newAngle), 1000),
          position[2] + Div(Sin(Div(time, 20) + index * 10), 100),
          Div(distance * Sin(newAngle), 1000)>>

applyNebulaAnimation(position, index, time) ==
    LET noise == Div(Sin(Div(time * 3, 100) + index * 100)
                     * Cos(Div(time, 50) + index * 50), 1000)
    IN  <<position[1] + Div(noise, 50),
          position[2] + Div(Sin(Div(time, 25) + index * 80) * 3, 200),
          position[3] + Div(Cos(Div(time * 7, 200) + index * 60) * 9, 500)>>

\* A variant of the explosion preset that pulls the particle inward.
applyExplosionAnimationInward(position, index, time) ==
    LET explosionFactor == Div(Sin(Div(time, 20)), 2) + 500
        direction == normalize(position)
    IN  [k \in 1 .. 3 |-> position[k] - Div(direction[k] * explosionFactor, 5000)]

applyExplosionAnimation(position, index, time) ==
    LET explosionFactor == Div(Sin(Div(time, 20)), 2) + 500
        direction == normalize(position)
    IN  [k \in 1 .. 3 |-> position[k] + Div(direction[k] * explosionFactor, 5000)]

applyWaveAnimation(position, index, time) ==
    LET waveHeight == Sin(Div(position[1], 2) + Div(time, 10))
    IN  <<position[1],
          waveHeight + Div(Sin(Div(time, 5) + index * 100), 5),
          position[3]>>

\* A variant of applySpiralAnimation whose radius grows with the elapsed time.
applySpiralAnimationWidening(position, index, time) ==
    LET height == position[2]
        radius == Sqrt(position[1] * position[1] + position[3] * position[3])
                  + Div(Abs(time), 10)
        angle == Atan2(position[3], position[1]) + Div(time, 20) + Div(height, 10)
    IN  <<Div(radius * CosFine(angle), 10000), height,
          Div(radius * SinFine(angle), 10000)>>

applySpiralAnimation(position, index, time) ==
    LET height == position[2]
        radius == Sqrt(position[1] * position[1] + position[3] * position[3])
        angle == Atan2(position[3], position[1]) + Div(time, 20) + Div(height, 10)
    IN  <<Div(radius * CosFine(angle), 10000), height,
          Div(radius * SinFine(angle), 10000)>>

applyAuroraAnimation(position, index, time) ==
    LET wave1 == Div(Sin(Div(position[1], 5) + Div(time, 5)), 2)
        wave2 == Div(Cos(Div(position[3] * 3, 10) + Div(time * 3, 20)) * 3, 10)
    IN  <<position[1],
          wave1 + wave2 + Div(Sin(Div(time, 10) + index * 100), 5),
          position[3]>>

\* A variant of applyPresetAnimation whose default case is the galaxy motion.
applyPresetAnimationDefaultingToGalaxy(preset, position, index, time) ==
    CASE preset = "nebula" -> applyNebulaAnimation(position, index, time)
      [] preset = "explosion" -> applyExplosionAnimation(position, index, time)
      [] preset = "wave" -> applyWaveAnimation(position, index, time)
      [] preset = "spiral" -> applySpiralAnimation(position, index, time)
      [] preset = "aurora" -> applyAuroraAnimation(position, index, time)
      [] preset = "default" -> position
      [] OTHER -> applyGalaxyAnimation(position, index, time)

\* ParticleSystem.applyPresetAnimation: the switch on this.currentPreset.
applyPresetAnimation(preset, position, index, time) ==
    CASE preset = "galaxy" -> applyGalaxyAnimation(position, index, time)
      [] preset = "nebula" -> applyNebulaAnimation(position, index, time)
      [] preset = "explosion" -> applyExplosionAnimation(position, index, time)
      [] preset = "wave" -> applyWaveAnimation(position, index, time)
      [] preset = "spiral" -> applySpiralAnimation(position, index, time)
      [] preset = "aurora" -> applyAuroraAnimation(position, index, time)
      [] OTHER -> position

\* -------------------------------------------------------- updateParticles
\* The mouse interaction of updateParticles on one position.
MouseInteraction(w, position) ==
    LET mouseInfluenceVector == <<w.mouse[1], w.mouse[2], 0>>
        diff == [k \in 1 .. 3 |-> position[k] - mouseInfluenceVector[k]]
        distance == Length(diff)
        influence == Max(0, 1000 - distance \div 5)
        direction == normalize(diff)
    IN  [k \in 1 .. 3 |->
            position[k] + Div(direction[k] * influence * w.mouseInfluence, 10000000)]

\* The position updateParticles writes for particle i (from 1).
NextPosition(w, i) ==
    LET current == <<w.position[3 * i - 2], w.position[3 * i - 1], w.position[3 * i]>>
        moved == applyPresetAnimation(w.currentPreset, current, i - 1, w.time)
        pushed == IF w.mouseInteraction THEN MouseInteraction(w, moved) ELSE moved
        t == Div(w.time, 10)
    IN  <<pushed[1] + Div(Sin(t + w.phase[i]), 20),
          pushed[2] + Div(Cos(t + w.phase[i]), 20),
          pushed[3] + Div(Sin(Div(w.time, 20) + w.phase[i]) * 3, 100)>>

\* The colour updateParticles writes for particle i when colorTransition is on.
NextColor(w, i) ==
    LET factor == (Sin(Div(w.time, 20) + w.phase[i]) + 1000) \div 2
    IN  lerpColors(w.baseColor, w.accentColor, factor)

\* The particles the loop of updateParticles can read and write: its bound is
\* this.particleCount, and a typed array ignores an index outside it.
Updated(w, i) == i <= w.particleCount /\ i <= Len(w.phase) /\ 3 * i <= Len(w.position)

\* The position array after the loop of updateParticles.
UpdatedPositions(w) ==
    [k \in 1 .. Len(w.position) |->
        LET i == ((k - 1) \div 3) + 1
        IN  IF Updated(w, i) THEN NextPosition(w, i)[((k - 1) % 3) + 1]
            ELSE w.position[k]]

\* A variant of UpdatedColors that recolours whatever colorTransition says.
UpdatedColorsAlways(w) ==
    [k \in 1 .. Len(w.color) |->
        LET i == ((k - 1) \div 3) + 1
        IN  IF Updated(w, i) THEN NextColor(w, i)[((k - 1) % 3) + 1] ELSE w.color[k]]

\* The colour array after the loop of updateParticles.
UpdatedColors(w) ==
    [k \in 1 .. Len(w.color) |->
        LET i == ((k - 1) \div 3) + 1
        IN  IF w.colorTransition /\ Updated(w, i)
            THEN NextColor(w, i)[((k - 1) % 3) + 1]
            ELSE w.color[k]]

\* A variant of updateParticles that also advances each phase by the time.
updateParticlesAdvancingPhase(w) ==
    [w EXCEPT
      !.position = UpdatedPositions(w),
      !.color = UpdatedColors(w),
      !.phase = [i \in 1 .. Len(w.phase) |-> (w.phase[i] + Div(w.time, 10)) % TwoPi],
      !.positionVersion = @ + 1,
      !.colorVersion = IF w.colorTransition THEN @ + 1 ELSE @,
      !.uniforms = updateTime(@, w.time)]

\* A variant of updateParticles that marks the colours for upload every frame.
updateParticlesMarkingColors(w) ==
    [w EXCEPT
      !.position = UpdatedPositions(w),
      !.color = UpdatedColors(w),
      !.positionVersion = @ + 1,
      !.colorVersion = @ + 1,
      !.uniforms = updateTime(@, w.time)]

\* ParticleSystem.updateParticles. this.particles and this.particleGeometry
\* are set from init() on, so its first line never returns.
updateParticles(w) ==
    [w EXCEPT
      !.position = UpdatedPositions(w),
      !.color = UpdatedColors(w),
      !.positionVersion = @ + 1,
      !.colorVersion = IF w.colorTransition THEN @ + 1 ELSE @,
      !.uniforms = updateTime(@, w.time)]

\* ParticleSystem.updateCamera.
updateCamera(w) ==
    IF w.rotationSpeed > 0
    THEN LET a == Div(w.time * w.rotationSpeed, 1000)
         IN  [w EXCEPT !.cameraPosition = <<Cos(a) * 10, @[2], Sin(a) * 10>>]
    ELSE w

\* ----------------------------------------------------- PerformanceMonitor
\* Durations are in milliseconds, frame rates and frame times in hundredths.

\* The callbacks given to the monitor: the display update of App.start, and
\* one that throws when it is called.
Callbacks == {"display", "faulty"}
Throws(callback) == callback = "faulty"
\* start() called without a callback.
NoCallback == "undefined"

\* The time between two frames (a 60 Hz display), and between start() and its
\* first update().
FrameDurations == {16}
StartDurations == {0}

\* 1000 / 0.
Infinity == 1000000000

\* this.fps = 1000 / this.deltaTime.
Fps(deltaTime) == IF deltaTime = 0 THEN Infinity ELSE 100000 \div deltaTime

\* Math.round of a value in hundredths.
Round(x) == IF x = Infinity THEN Infinity ELSE (x + 50) \div 100

RECURSIVE Sum(_)
Sum(history) == IF history = <<>> THEN 0 ELSE Head(history) + Sum(Tail(history))

\* The fields new PerformanceMonitor() sets, with no frame requested.
NewPerformanceMonitor ==
    [isRunning |-> FALSE, frameCount |-> 0, deltaTime |-> 0, fps |-> 6000,
     fpsHistory |-> <<>>, maxHistoryLength |-> 60, callbacks |-> <<>>,
     stats |-> [fps |-> 60, avgFps |-> 60, minFps |-> 60, maxFps |-> 60,
                frameTime |-> 1667],
     animationId |-> 0, pending |-> {}, nextId |-> 1,
     invoked |-> <<>>, errors |-> 0, thrown |-> FALSE]

\* The monitor as an operation finds it: nothing invoked, logged or thrown yet.
Entered(m) == [m EXCEPT !.invoked = <<>>, !.errors = 0, !.thrown = FALSE]

\* PerformanceMonitor.updateStats.
updateStats(m) ==
    LET h == m.fpsHistory
        finite == {h[k] : k \in DOMAIN h} \ {Infinity}
        basic == [m.stats EXCEPT !.fps = Round(m.fps),
                                 !.frameTime = m.deltaTime * 100]
    IN  [m EXCEPT !.stats =
            IF h = <<>> THEN basic
            ELSE [basic EXCEPT
                    !.avgFps = IF \E k \in DOMAIN h : h[k] = Infinity THEN Infinity
                               ELSE Round(Sum(h) \div Len(h)),
                    !.minFps = IF finite = {} THEN Infinity
                               ELSE Round(CHOOSE x \in finite : \A y \in finite : x <= y),
                    !.maxFps = IF \E k \in DOMAIN h : h[k] = Infinity THEN Infinity
                               ELSE Round(CHOOSE x \in finite : \A y \in finite : x >= y)]]

\* A variant of notifyCallbacks without the try/catch: the first callback
\* that throws ends the notification and its exception leaves the method.
notifyCallbacksUncaught(m) ==
    LET c == m.callbacks
        failing == {k \in DOMAIN c : Throws(c[k])}
        last == IF failing = {} THEN Len(c)
                ELSE CHOOSE k \in failing : \A j \in failing : k <= j
    IN  [m EXCEPT !.invoked = SubSeq(c, 1, last), !.thrown = failing # {}]

\* PerformanceMonitor.notifyCallbacks: every callback is called inside its own
\* try/catch, which logs the error.
notifyCallbacks(m) ==
    LET c == m.callbacks
    IN  [m EXCEPT !.invoked = c,
                  !.errors = Cardinality({k \in DOMAIN c : Throws(c[k])})]

\* PerformanceMonitor.update, deltaTime after the previous measurement. An
\* exception from the notification leaves before the next frame is requested.
PerformanceMonitor_update(m, deltaTime) ==
    IF ~m.isRunning THEN m
    ELSE LET pushed == Append(m.fpsHistory, Fps(deltaTime))
             measured == [m EXCEPT
                 !.deltaTime = deltaTime,
                 !.fps = Fps(deltaTime),
                 !.fpsHistory = IF Len(pushed) > m.maxHistoryLength
                                THEN Tail(pushed) ELSE pushed,
                 !.frameCount = @ + 1]
             told == IF measured.frameCount % 10 = 0
                     THEN notifyCallbacks(updateStats(measured))
                     ELSE measured
         IN  IF told.thrown THEN told
             ELSE [told EXCEPT !.animationId = m.nextId,
                               !.pending = @ \cup {m.nextId},
                               !.nextId = @ + 1]

\* A variant of start without the isRunning check.
PerformanceMonitor_startUnguarded(m, callback, deltaTime) ==
    PerformanceMonitor_update(
        [m EXCEPT !.isRunning = TRUE,
                  !.callbacks = IF callback = NoCallback THEN @
                                ELSE Append(@, callback)],
        deltaTime)

\* PerformanceMonitor.start.
PerformanceMonitor_start(m, callback, deltaTime) ==
    IF m.isRunning THEN m
    ELSE PerformanceMonitor_update(
             [m EXCEPT !.isRunning = TRUE,
                       !.callbacks = IF callback = NoCallback THEN @
                                     ELSE Append(@, callback)],
             deltaTime)

\* PerformanceMonitor.stop.
PerformanceMonitor_stop(m) ==
    IF ~m.isRunning THEN m
    ELSE IF m.animationId # 0
         THEN [m EXCEPT !.isRunning = FALSE,
                        !.pending = @ \ {m.animationId},
                        !.animationId = 0]
         ELSE [m EXCEPT !.isRunning = FALSE]

\* PerformanceMonitor.addCallback.
addCallback(m, callback) == [m EXCEPT !.callbacks = Append(@, callback)]

\* PerformanceMonitor.removeCallback: the first occurrence, if there is one.
removeCallback(m, callback) ==
    LET c == m.callbacks
        found == {k \in DOMAIN c : c[k] = callback}
    IN  IF found = {} THEN m
        ELSE LET index == CHOOSE k \in found : \A j \in found : k <= j
             IN  [m EXCEPT !.callbacks =
                     SubSeq(c, 1, index - 1) \o SubSeq(c, index + 1, Len(c))]

\* PerformanceMonitor.getStats.
getStats(m) == m.stats

\* PerformanceMonitor.reset.
PerformanceMonitor_reset(m) ==
    [m EXCEPT !.frameCount = 0, !.fpsHistory = <<>>,
              !.stats = NewPerformanceMonitor.stats]

\* The host runs the oldest frame callback requested by the monitor.
PerformanceMonitor_runFrame(m, deltaTime) ==
    LET id == CHOOSE x \in m.pending : \A y \in m.pending : x <= y
    IN  PerformanceMonitor_update([m EXCEPT !.pending = @ \ {id}], deltaTime)

\* ------------------------------------------------------------ SolarSystem
\* Orbital angles are in microradians, orbital speeds in 1/10000, the speed
\* multipliers in tenths, wall-clock times and frame deltas in milliseconds.
\* The model keeps each planet's userData and each orbit line's visibility,
\* not the mesh transforms computed from them.

\* this.planetData: name, distance and speed of each planet.
planetData ==
    <<[name |-> "Mercury", distance |-> 8, speed |-> 474],
      [name |-> "Venus", distance |-> 12, speed |-> 350],
      [name |-> "Earth", distance |-> 16, speed |-> 298],
      [name |-> "Mars", distance |-> 20, speed |-> 241],
      [name |-> "Jupiter", distance |-> 28, speed |-> 131],
      [name |-> "Saturn", distance |-> 36, speed |-> 97],
      [name |-> "Uranus", distance |-> 44, speed |-> 68],
      [name |-> "Neptune", distance |-> 52, speed |-> 54]>>

\* The Math.random() * Math.PI * 2 results of one createPlanets call.
PlanetAngles ==
    {[i \in DOMAIN planetData |-> 0],
     [i \in DOMAIN planetData |-> (i * 785000) % (TwoPi * 1000)]}

\* The fields the SolarSystem constructor sets before it calls init(). sceneId
\* numbers the THREE.Scene objects created so far; scene lists the children
\* of the current one; every planet and orbit line records the scene it was
\* added to. clock is the THREE.Clock; pending and nextId are the host's
\* animation frame requests for this object; renderCalls counts
\* renderer.render calls; rendererDisposed records renderer.dispose().
NewSolarSystem ==
    [componentsInitialized |-> FALSE, animationId |-> 0, isPlaying |-> TRUE,
     globalSpeed |-> 10, sun |-> 0, planets |-> <<>>, orbitLines |-> <<>>,
     stars |-> 0, showOrbits |-> TRUE, showLabels |-> TRUE, showStars |-> TRUE,
     darkMode |-> FALSE, sceneId |-> 0, scene |-> <<>>,
     clock |-> [running |-> FALSE, oldTime |-> 0],
     camera |-> <<0, 0, 0>>, starsVisible |-> TRUE, background |-> "0x000011",
     pending |-> {}, nextId |-> 1, renderCalls |-> 0,
     rendererDisposed |-> FALSE]

\* App before initializeComponents: this.solarSystem = null.
NoSolarSystem == NewSolarSystem

\* SolarSystem.setupScene.
setupScene(s) ==
    [s EXCEPT !.sceneId = @ + 1, !.scene = <<>>, !.background = "0x000011"]

\* SolarSystem.setupCamera.
setupCamera(s) == [s EXCEPT !.camera = <<0, 30, 60>>]

\* SolarSystem.setupLights.
setupLights(s) ==
    [s EXCEPT !.scene = @ \o <<"AmbientLight", "PointLight", "DirectionalLight">>]

\* SolarSystem.createStars.
createStars(s) ==
    [s EXCEPT !.stars = s.sceneId, !.starsVisible = TRUE,
              !.scene = Append(@, "Stars")]

\* SolarSystem.createSun.
createSun(s) == [s EXCEPT !.sun = s.sceneId, !.scene = Append(@, "Sun")]

\* SolarSystem.createPlanets with the given Math.random() results.
createPlanets(s, angles) ==
    LET made == [i \in DOMAIN planetData |->
                    [name |-> planetData[i].name,
                     distance |-> planetData[i].distance,
                     speed |-> planetData[i].speed,
                     angle |-> angles[i],
                     individualSpeed |-> 10,
                     scene |-> s.sceneId]]
    IN  [s EXCEPT !.planets = @ \o made,
                  !.scene = @ \o [i \in DOMAIN planetData |-> planetData[i].name]]

\* SolarSystem.createOrbitLines.
createOrbitLines(s) ==
    [s EXCEPT
      !.orbitLines = @ \o [i \in DOMAIN planetData |->
                              [distance |-> planetData[i].distance,
                               visible |-> TRUE,
                               scene |-> s.sceneId]],
      !.scene = @ \o [i \in DOMAIN planetData |-> "Line"]]

\* SolarSystem.init: the canvas exists, so nothing throws.
SolarSystem_init(s, angles) ==
    createOrbitLines(
        createPlanets(createSun(createStars(setupLights(setupCamera(setupScene(s))))),
                      angles))

\* new SolarSystem(canvasId): the constructor ends by calling init().
SolarSystem_constructor(angles) == SolarSystem_init(NewSolarSystem, angles)

\* App.initializeComponents: new SolarSystem('solar-canvas'), then
\* await this.solarSystem.init().
initializeComponents(first, second) ==
    [SolarSystem_init(SolarSystem_constructor(first), second)
        EXCEPT !.componentsInitialized = TRUE]

\* SolarSystem.setGlobalSpeed.
setGlobalSpeed(s, multiplier) == [s EXCEPT !.globalSpeed = multiplier]

\* SolarSystem.setPlanetSpeed: this.planets.find gives the first match.
setPlanetSpeed(s, planetName, multiplier) ==
    LET found == {i \in DOMAIN s.planets : s.planets[i].name = planetName}
    IN  IF found = {} THEN s
        ELSE LET first == CHOOSE i \in found : \A j \in found : i <= j
             IN  [s EXCEPT !.planets[first].individualSpeed = multiplier]

\* THREE.Clock.getDelta at the wall-clock time t: the first call starts the
\* clock and gives 0, a later call gives the time since the previous call.
getDelta(clock, t) == IF ~clock.running THEN 0 ELSE t - clock.oldTime

\* The clock after getDelta at the wall-clock time t.
Read(clock, t) == [running |-> TRUE, oldTime |-> t]

\* SolarSystem.updatePlanets: angle += speed * individualSpeed * globalSpeed
\* * deltaTime, for every entry of this.planets.
updatePlanets(s, deltaTime) ==
    [s EXCEPT !.planets =
        [i \in DOMAIN @ |->
            [@[i] EXCEPT !.angle =
                @ + Div(Div(s.planets[i].speed * s.planets[i].individualSpeed
                            * s.globalSpeed, 10) * deltaTime, 100)]]]

\* SolarSystem.render.
SolarSystem_render(s) == [s EXCEPT !.renderCalls = @ + 1]

\* SolarSystem.animate at the wall-clock time t.
SolarSystem_animate(s, t) ==
    IF ~s.isPlaying THEN s
    ELSE LET scheduled == [s EXCEPT !.animationId = s.nextId,
                                    !.pending = @ \cup {s.nextId},
                                    !.nextId = @ + 1,
                                    !.clock = Read(s.clock, t)]
         IN  SolarSystem_render(updatePlanets(scheduled, getDelta(s.clock, t)))

\* SolarSystem.start.
SolarSystem_start(s, t) == SolarSystem_animate([s EXCEPT !.isPlaying = TRUE], t)

\* SolarSystem.pause.
SolarSystem_pause(s) ==
    IF s.animationId # 0
    THEN [s EXCEPT !.isPlaying = FALSE,
                   !.pending = @ \ {s.animationId},
                   !.animationId = 0]
    ELSE [s EXCEPT !.isPlaying = FALSE]

\* SolarSystem.resume.
SolarSystem_resume(s, t) ==
    IF ~s.isPlaying THEN SolarSystem_animate([s EXCEPT !.isPlaying = TRUE], t)
    ELSE s

\* A variant of reset that leaves the planets of a replaced scene alone.
SolarSystem_resetCurrentScene(s, angles) ==
    [s EXCEPT !.planets =
                 [i \in DOMAIN @ |->
                     IF @[i].scene # s.sceneId THEN @[i]
                     ELSE [@[i] EXCEPT
                             !.angle = angles[((i - 1) % Len(planetData)) + 1],
                             !.individualSpeed = 10]],
              !.globalSpeed = 10,
              !.camera = <<0, 30, 60>>]

\* SolarSystem.reset with the given Math.random() results, one per planet.
SolarSystem_reset(s, angles) ==
    [s EXCEPT !.planets =
                 [i \in DOMAIN @ |->
                     [@[i] EXCEPT !.angle = angles[((i - 1) % Len(planetData)) + 1],
                                  !.individualSpeed = 10]],
              !.globalSpeed = 10,
              !.camera = <<0, 30, 60>>]

\* SolarSystem.updateVisualSettings; settings holds any of the four fields.
updateVisualSettings(s, settings) ==
    LET has(k) == k \in DOMAIN settings
        orbits == IF has("showOrbits") THEN settings.showOrbits ELSE s.showOrbits
        dark == IF has("darkMode") THEN settings.darkMode ELSE s.darkMode
    IN  [s EXCEPT
          !.showOrbits = orbits,
          !.orbitLines = IF has("showOrbits")
                         THEN [i \in DOMAIN @ |-> [@[i] EXCEPT !.visible = orbits]]
                         ELSE @,
          !.showLabels = IF has("showLabels") THEN settings.showLabels ELSE @,
          !.showStars = IF has("showStars") THEN settings.showStars ELSE @,
          !.starsVisible = IF has("showStars") THEN settings.showStars ELSE @,
          !.darkMode = dark,
          !.background = IF ~has("darkMode") THEN @
                         ELSE IF dark THEN "0x000000" ELSE "0x000011"]

\* SolarSystem.dispose.
SolarSystem_dispose(s) == [SolarSystem_pause(s) EXCEPT !.rendererDisposed = TRUE]

\* ----------------------------------------------------- UIController, App
\* The fields the UIController constructor sets, with the controls as
\* index.html gives them: the label of the play button, the sliders (tenths)
\* and the checkboxes.
NewUIController ==
    [isPanelCollapsed |-> FALSE, isPlaying |-> TRUE, playPauseBtn |-> "Pause",
     globalSpeedSlider |-> 10,
     planetSpeedSliders |-> [i \in DOMAIN planetData |-> 10],
     showOrbitsCheck |-> TRUE, showLabelsCheck |-> TRUE,
     showStarsCheck |-> TRUE, darkModeCheck |-> FALSE]

\* The page: document.hidden, the dark-mode class of the body, and whether
\* App.setupEventListeners has registered the listeners.
NewDocument == [hidden |-> FALSE, darkMode |-> FALSE, listening |-> FALSE]

\* UIController.togglePlayPause at the wall-clock time t, on the record a of
\* the solar system, the controller and the page.
togglePlayPause(a, t) ==
    LET playing == ~a.uiController.isPlaying
    IN  [a EXCEPT
          !.uiController.isPlaying = playing,
          !.uiController.playPauseBtn = IF playing THEN "Pause" ELSE "Play",
          !.solarSystem = IF playing THEN SolarSystem_resume(@, t)
                          ELSE SolarSystem_pause(@)]

\* UIController.resetUIToDefaults.
resetUIToDefaults(a) ==
    [a EXCEPT
      !.uiController.globalSpeedSlider = 10,
      !.uiController.planetSpeedSliders = [i \in DOMAIN @ |-> 10],
      !.uiController.showOrbitsCheck = TRUE,
      !.uiController.showLabelsCheck = TRUE,
      !.uiController.showStarsCheck = TRUE,
      !.uiController.darkModeCheck = FALSE,
      !.document.darkMode = FALSE,
      !.solarSystem = updateVisualSettings(
                          setGlobalSpeed(@, 10),
                          [showOrbits |-> TRUE, showLabels |-> TRUE,
                           showStars |-> TRUE, darkMode |-> FALSE])]

\* UIController.reset with the Math.random() results SolarSystem.reset uses.
UIController_reset(a, angles) ==
    resetUIToDefaults([a EXCEPT !.solarSystem = SolarSystem_reset(@, angles)])

\* The change listeners of the four checkboxes (setupVisualControls).
visualChange(a, setting, checked) ==
    LET settings == [k \in {setting} |-> checked]
        box == CASE setting = "showOrbits" -> "showOrbitsCheck"
                 [] setting = "showLabels" -> "showLabelsCheck"
                 [] setting = "showStars" -> "showStarsCheck"
                 [] OTHER -> "darkModeCheck"
    IN  [a EXCEPT
          !.uiController = [@ EXCEPT ![box] = checked],
          !.solarSystem = updateVisualSettings(@, settings),
          !.document.darkMode = IF setting = "darkMode" THEN checked ELSE @]

\* The input listener of the global speed slider (setupAnimationControls).
globalSpeedInput(a, multiplier) ==
    [a EXCEPT !.uiController.globalSpeedSlider = multiplier,
              !.solarSystem = setGlobalSpeed(@, multiplier)]

\* The input listener of the slider of planet i (setupPlanetControls): the
\* name it passes is the planet's name.
planetSpeedInput(a, i, multiplier) ==
    [a EXCEPT !.uiController.planetSpeedSliders[i] = multiplier,
              !.solarSystem = setPlanetSpeed(@, planetData[i].name, multiplier)]

\* The visibilitychange listener of App.setupEventListeners, after the page
\* became hidden or visible at the wall-clock time t.
visibilitychange(a, hidden, t) ==
    [a EXCEPT !.document.hidden = hidden,
              !.solarSystem = IF hidden THEN SolarSystem_pause(@)
                              ELSE SolarSystem_resume(@, t)]

\* ------------------------------------------------------------------ state
VARIABLES
    \* ParticleSystem: animation properties
    animationId, isPlaying, time, speed, rotationSpeed,
    \* ParticleSystem: particle properties
    particleCount, particleSize, particleShape, baseColor, accentColor,
    colorTransition,
    \* ParticleSystem: mouse interaction and preset
    mouse, mouseInfluence, mouseInteraction, currentPreset,
    \* the geometry: its identity (the number of the createParticles call that
    \* made it), its five attribute arrays, and the version counters that
    \* needsUpdate = true advances
    particleGeometry, position, color, size, velocity, phase,
    positionVersion, colorVersion,
    \* the material's uniforms
    uniforms,
    \* the camera position, the number of renderer.render calls, and what
    \* dispose() released
    cameraPosition, renderCalls, populationDisposed, rendererDisposed,
    \* the host: the ids of the requested animation frames not yet run or
    \* cancelled, and the next id requestAnimationFrame returns
    pending, nextId,
    \* the number of configuration calls made so far, and the operation that
    \* ran last
    calls, op,
    \* PerformanceMonitor: its fields, the host's frame requests for it
    \* (pending, nextId), and what its last operation did: the callbacks it
    \* invoked, the errors it logged, whether an exception left it
    performanceMonitor,
    \* SolarSystem: its fields, and whether App.initializeComponents has
    \* created and initialised it
    solarSystem,
    \* UIController: its fields and the state of its controls
    uiController,
    \* the page (document.hidden, the body's dark-mode class, the listeners
    \* of App) and the wall-clock time in milliseconds
    document, now,
    \* PresetManager: its store (presets), currentPreset and the result of
    \* its last call; and the particleSystem_userPresets item of localStorage
    presetManager, localStorage

vars ==
    <<animationId, isPlaying, time, speed, rotationSpeed, particleCount,
      particleSize, particleShape, baseColor, accentColor, colorTransition,
      mouse, mouseInfluence, mouseInteraction, currentPreset, particleGeometry,
      position, color, size, velocity, phase, positionVersion, colorVersion,
      uniforms, cameraPosition, renderCalls, populationDisposed,
      rendererDisposed, pending, nextId, calls, op, performanceMonitor,
      solarSystem, uiController, document, now, presetManager, localStorage>>

\* The variables of the particle engine and its host.
engineVars ==
    <<animationId, isPlaying, time, speed, rotationSpeed, particleCount,
      particleSize, particleShape, baseColor, accentColor, colorTransition,
      mouse, mouseInfluence, mouseInteraction, currentPreset, particleGeometry,
      position, color, size, velocity, phase, positionVersion, colorVersion,
      uniforms, cameraPosition, renderCalls, populationDisposed,
      rendererDisposed, pending, nextId>>

\* The variables of the solar system, its controller and the page.
pageVars == <<solarSystem, uiController, document, now>>

\* The variables of the preset manager and the storage.
presetVars == <<presetManager, localStorage>>

\* this.animationId = null.
NoFrame == 0

\* The engine and the host as one record, as the handlers below take it.
World ==
    [animationId |-> animationId, isPlaying |-> isPlaying, time |-> time,
     speed |-> speed, rotationSpeed |-> rotationSpeed,
     particleCount |-> particleCount, particleSize |-> particleSize,
     particleShape |-> particleShape, baseColor |-> baseColor,
     accentColor |-> accentColor, colorTransition |-> colorTransition,
     mouse |-> mouse, mouseInfluence |-> mouseInfluence,
     mouseInteraction |-> mouseInteraction, currentPreset |-> currentPreset,
     particleGeometry |-> particleGeometry, position |-> position,
     color |-> color, size |-> size, velocity |-> velocity, phase |-> phase,
     positionVersion |-> positionVersion, colorVersion |-> colorVersion,
     uniforms |-> uniforms, cameraPosition |-> cameraPosition,
     renderCalls |-> renderCalls, populationDisposed |-> populationDisposed,
     rendererDisposed |-> rendererDisposed, pending |-> pending,
     nextId |-> nextId]

\* The next state of the engine is the record w.
InstallEngine(w) ==
    /\ animationId' = w.animationId
    /\ isPlaying' = w.isPlaying
    /\ time' = w.time
    /\ speed' = w.speed
    /\ rotationSpeed' = w.rotationSpeed
    /\ particleCount' = w.particleCount
    /\ particleSize' = w.particleSize
    /\ particleShape' = w.particleShape
    /\ baseColor' = w.baseColor
    /\ accentColor' = w.accentColor
    /\ colorTransition' = w.colorTransition
    /\ mouse' = w.mouse
    /\ mouseInfluence' = w.mouseInfluence
    /\ mouseInteraction' = w.mouseInteraction
    /\ currentPreset' = w.currentPreset
    /\ particleGeometry' = w.particleGeometry
    /\ position' = w.position
    /\ color' = w.color
    /\ size' = w.size
    /\ velocity' = w.velocity
    /\ phase' = w.phase
    /\ positionVersion' = w.positionVersion
    /\ colorVersion' = w.colorVersion
    /\ uniforms' = w.uniforms
    /\ cameraPosition' = w.cameraPosition
    /\ renderCalls' = w.renderCalls
    /\ populationDisposed' = w.populationDisposed
    /\ rendererDisposed' = w.rendererDisposed
    /\ pending' = w.pending
    /\ nextId' = w.nextId

\* The next state of the engine is the record w; an engine handler touches no
\* other component.
Install(w) ==
    /\ InstallEngine(w)
    /\ UNCHANGED <<performanceMonitor, pageVars, presetVars>>

\* --------------------------------------------------------------- handlers
\* ParticleSystem.render.
render(w) == [w EXCEPT !.renderCalls = @ + 1]

\* A variant of animate without the isPlaying check.
animateUnchecked(w) ==
    LET scheduled == [w EXCEPT !.animationId = w.nextId,
                               !.pending = @ \cup {w.nextId},
                               !.nextId = @ + 1]
        advanced == [scheduled EXCEPT !.time = @ + TimeStep * w.speed]
    IN  render(updateCamera(updateParticles(advanced)))

\* ParticleSystem.animate.
animate(w) ==
    IF ~w.isPlaying THEN w
    ELSE LET scheduled == [w EXCEPT !.animationId = w.nextId,
                                    !.pending = @ \cup {w.nextId},
                                    !.nextId = @ + 1]
             advanced == [scheduled EXCEPT !.time = @ + TimeStep * w.speed]
         IN  render(updateCamera(updateParticles(advanced)))

\* ParticleSystem.start.
start(w) == animate([w EXCEPT !.isPlaying = TRUE])

\* ParticleSystem.pause.
pause(w) ==
    IF w.animationId # NoFrame
    THEN [w EXCEPT !.isPlaying = FALSE,
                   !.pending = @ \ {w.animationId},
                   !.animationId = NoFrame]
    ELSE [w EXCEPT !.isPlaying = FALSE]

\* ParticleSystem.resume.
resume(w) ==
    IF ~w.isPlaying THEN animate([w EXCEPT !.isPlaying = TRUE]) ELSE w

\* A variant of reset that keeps the elapsed time.
resetKeepingTime(w, draws) == createParticles(w, draws)

\* ParticleSystem.reset.
reset(w, draws) == createParticles([w EXCEPT !.time = 0], draws)

\* Object.assign(this, properties).
Assign(w, properties) ==
    [k \in DOMAIN w |-> IF k \in DOMAIN properties THEN properties[k] ELSE w[k]]

\* A variant of needsRecreate that looks at the shape alone.
needsRecreateShapeOnly(w, properties) ==
    /\ "particleShape" \in DOMAIN properties
    /\ properties.particleShape # w.particleShape

\* A variant of needsRecreate that looks at the count alone.
needsRecreateCountOnly(w, properties) ==
    /\ "particleCount" \in DOMAIN properties
    /\ properties.particleCount # w.particleCount

\* The needsRecreate of updateProperties.
needsRecreate(w, properties) ==
    \/ /\ "particleCount" \in DOMAIN properties
       /\ properties.particleCount # w.particleCount
    \/ /\ "particleShape" \in DOMAIN properties
       /\ properties.particleShape # w.particleShape

\* ParticleSystem.updateProperties; draws are used when it recreates.
updateProperties(w, properties, draws) ==
    LET assigned == Assign(w, properties)
    IN  IF needsRecreate(w, properties)
        THEN createParticles(assigned, draws)
        ELSE [assigned EXCEPT !.uniforms =
                 materialUpdateProperties(@, [baseColor |-> assigned.baseColor,
                                              accentColor |-> assigned.accentColor,
                                              size |-> assigned.particleSize])]

\* ParticleSystem.setPreset.
setPreset(w, presetName) == [w EXCEPT !.currentPreset = presetName]

\* ParticleSystem.getParticleCount.
getParticleCount(w) == w.particleCount

\* A variant of dispose that releases the resources without pausing.
disposeWithoutPause(w) ==
    [w EXCEPT !.populationDisposed = TRUE, !.rendererDisposed = TRUE]

\* ParticleSystem.dispose.
dispose(w) ==
    [pause(w) EXCEPT !.populationDisposed = TRUE, !.rendererDisposed = TRUE]

\* The mousemove and touchmove listeners, with the pointer already normalised.
mousemove(w, x, y) ==
    IF ~w.mouseInteraction THEN w ELSE [w EXCEPT !.mouse = <<x, y>>]

\* The host runs the oldest requested frame callback.
OldestFrame(w) == CHOOSE id \in w.pending : \A other \in w.pending : id <= other
runFrame(w) == animate([w EXCEPT !.pending = @ \ {OldestFrame(w)}])

\* ---------------------------------------------------------- PresetManager
\* A '#rrggbb' colour string is kept as its three bytes, a preset name as the
\* sequence of its characters, a key of the store as a string.

\* new THREE.Color('#rrggbb'): channels in thousandths.
Color(hex) == [k \in 1 .. 3 |-> (hex[k] * 1000 + 127) \div 255]

\* Color.getHexString(): each channel as Math.round(channel * 255).
getHexString(c) == [k \in 1 .. 3 |-> (c[k] * 255 + 500) \div 1000]

\* The model's particle count that stands for a preset's: the constructor's
\* 5000 is MaxParticles, every other count is 1.
Scaled(n) == IF n = 5000 THEN MaxParticles ELSE 1

\* The defaultPresets of loadDefaultPresets.
defaultPresets ==
    [galaxy |->
        [name |-> <<"G", "a", "l", "a", "x", "y">>,
         properties |->
            [baseColor |-> <<102, 126, 234>>, accentColor |-> <<118, 75, 162>>,
             particleSize |-> 15, particleCount |-> Scaled(8000), speed |-> 8,
             rotationSpeed |-> 3, colorTransition |-> TRUE,
             mouseInteraction |-> TRUE, particleShape |-> "circle"],
         animation |-> "galaxy"],
     nebula |->
        [name |-> <<"N", "e", "b", "u", "l", "a">>,
         properties |->
            [baseColor |-> <<255, 107, 107>>, accentColor |-> <<240, 147, 251>>,
             particleSize |-> 25, particleCount |-> Scaled(6000), speed |-> 12,
             rotationSpeed |-> 1, colorTransition |-> TRUE,
             mouseInteraction |-> TRUE, particleShape |-> "circle"],
         animation |-> "nebula"],
     explosion |->
        [name |-> <<"E", "x", "p", "l", "o", "s", "i", "o", "n">>,
         properties |->
            [baseColor |-> <<254, 202, 87>>, accentColor |-> <<255, 107, 107>>,
             particleSize |-> 30, particleCount |-> Scaled(10000), speed |-> 20,
             rotationSpeed |-> 8, colorTransition |-> TRUE,
             mouseInteraction |-> FALSE, particleShape |-> "star"],
         animation |-> "explosion"],
     wave |->
        [name |-> <<"W", "a", "v", "e">>,
         properties |->
            [baseColor |-> <<78, 205, 196>>, accentColor |-> <<68, 160, 141>>,
             particleSize |-> 18, particleCount |-> Scaled(7000), speed |-> 15,
             rotationSpeed |-> 2, colorTransition |-> TRUE,
             mouseInteraction |-> TRUE, particleShape |-> "circle"],
         animation |-> "wave"],
     spiral |->
        [name |-> <<"S", "p", "i", "r", "a", "l">>,
         properties |->
            [baseColor |-> <<168, 237, 234>>, accentColor |-> <<254, 214, 227>>,
             particleSize |-> 22, particleCount |-> Scaled(5000), speed |-> 10,
             rotationSpeed |-> 6, colorTransition |-> TRUE,
             mouseInteraction |-> TRUE, particleShape |-> "square"],
         animation |-> "spiral"],
     aurora |->
        [name |-> <<"A", "u", "r", "o", "r", "a">>,
         properties |->
            [baseColor |-> <<0, 201, 255>>, accentColor |-> <<146, 254, 157>>,
             particleSize |-> 15, particleCount |-> Scaled(4000), speed |-> 7,
             rotationSpeed |-> 1, colorTransition |-> TRUE,
             mouseInteraction |-> TRUE, particleShape |-> "heart"],
         animation |-> "aurora"]]

\* The record r with the field k set to v, added if r lacks it.
With(r, k, v) == [f \in DOMAIN r \cup {k} |-> IF f = k THEN v ELSE r[f]]

\* Map.set and Map.delete on the store, a function from keys to presets.
Set(store, key, preset) ==
    [k \in DOMAIN store \cup {key} |-> IF k = key THEN preset ELSE store[k]]
Delete(store, key) == [k \in DOMAIN store \ {key} |-> store[k]]

\* this.currentPreset = null; getItem() on a storage without the item.
NoPreset == "<null>"
NoItem == [stored |-> FALSE, userPresets |-> <<>>]

\* What the last call returned or threw.
NoResult == [key |-> NoPreset, flag |-> FALSE, count |-> 0, thrown |-> FALSE]

\* PresetManager.loadDefaultPresets.
loadDefaultPresets(m) ==
    [m EXCEPT !.presets =
        [k \in DOMAIN @ \cup DOMAIN defaultPresets |->
            IF k \in DOMAIN defaultPresets
            THEN With(defaultPresets[k], "isDefault", TRUE) ELSE @[k]]]

\* PresetManager.loadUserPresets from the item of the storage.
loadUserPresets(m, storage) ==
    IF ~storage.stored THEN m
    ELSE [m EXCEPT !.presets =
            [k \in DOMAIN @ \cup DOMAIN storage.userPresets |->
                IF k \in DOMAIN storage.userPresets
                THEN With(storage.userPresets[k], "isDefault", FALSE) ELSE @[k]]]

\* new PresetManager(particleSystem, uiController).
PresetManager_constructor(storage) ==
    loadUserPresets(
        loadDefaultPresets([presets |-> <<>>, currentPreset |-> NoPreset,
                            result |-> NoResult]),
        storage)

\* PresetManager.saveUserPresets: the item it writes.
saveUserPresets(m) ==
    LET user == {k \in DOMAIN m.presets : ~m.presets[k].isDefault}
    IN  [stored |-> TRUE, userPresets |-> [k \in user |-> m.presets[k]]]

\* The letters toLowerCase() changes, and the characters the pattern
\* /[^a-z0-9]/ leaves alone.
Uppercase ==
    <<"A", "B", "C", "D", "E", "F", "G", "H", "I", "J", "K", "L", "M",
      "N", "O", "P", "Q", "R", "S", "T", "U", "V", "W", "X", "Y", "Z">>
Lowercase ==
    <<"a", "b", "c", "d", "e", "f", "g", "h", "i", "j", "k", "l", "m",
      "n", "o", "p", "q", "r", "s", "t", "u", "v", "w", "x", "y", "z">>
Digits == {"0", "1", "2", "3", "4", "5", "6", "7", "8", "9"}

\* One character of name.toLowerCase().replace(/[^a-z0-9]/g, '_').
KeyChar(c) ==
    IF \E k \in DOMAIN Uppercase : Uppercase[k] = c
    THEN Lowercase[CHOOSE k \in DOMAIN Uppercase : Uppercase[k] = c]
    ELSE IF c \in Digits \/ \E k \in DOMAIN Lowercase : Lowercase[k] = c
    THEN c ELSE "_"

\* name.toLowerCase().replace(/[^a-z0-9]/g, '_').
RECURSIVE BaseKey(_)
BaseKey(name) ==
    IF name = <<>> THEN "" ELSE KeyChar(Head(name)) \o BaseKey(Tail(name))

\* The while loop of generatePresetKey from the given counter.
RECURSIVE Unused(_, _, _)
Unused(store, baseKey, counter) ==
    LET key == baseKey \o "_" \o ToString(counter)
    IN  IF key \in DOMAIN store THEN Unused(store, baseKey, counter + 1) ELSE key

\* A variant of generatePresetKey without the loop over the keys in use.
generatePresetKeyUnchecked(m, name) == BaseKey(name)

\* PresetManager.generatePresetKey.
generatePresetKey(m, name) ==
    LET baseKey == BaseKey(name)
    IN  IF baseKey \in DOMAIN m.presets THEN Unused(m.presets, baseKey, 1)
        ELSE baseKey

\* PresetManager.getCurrentProperties of the engine w.
getCurrentProperties(w) ==
    [baseColor |-> getHexString(w.baseColor),
     accentColor |-> getHexString(w.accentColor),
     particleSize |-> w.particleSize, particleCount |-> w.particleCount,
     speed |-> w.speed, rotationSpeed |-> w.rotationSpeed,
     colorTransition |-> w.colorTransition,
     mouseInteraction |-> w.mouseInteraction,
     particleShape |-> w.particleShape]

\* PresetManager.createPreset(name) at the wall-clock time t. The result has
\* the manager and the item saveUserPresets wrote.
createPreset(m, w, name, t) ==
    LET presetKey == generatePresetKey(m, name)
        preset == [name |-> name, description |-> "",
                   properties |-> getCurrentProperties(w),
                   animation |-> w.currentPreset, isDefault |-> FALSE,
                   created |-> t]
        stored == [m EXCEPT !.presets = Set(@, presetKey, preset),
                            !.result = [NoResult EXCEPT !.key = presetKey]]
    IN  [manager |-> stored, storage |-> saveUserPresets(stored)]

\* A variant of deletePreset that also deletes a default preset.
deletePresetUnprotected(m, storage, presetKey) ==
    IF presetKey \notin DOMAIN m.presets
    THEN [manager |-> [m EXCEPT !.result = NoResult], storage |-> storage]
    ELSE LET deleted == [m EXCEPT !.presets = Delete(@, presetKey),
                                  !.result = [NoResult EXCEPT !.flag = TRUE]]
         IN  [manager |-> deleted, storage |-> saveUserPresets(deleted)]

\* PresetManager.deletePreset; storage is the item as it was.
deletePreset(m, storage, presetKey) ==
    IF presetKey \notin DOMAIN m.presets \/ m.presets[presetKey].isDefault
    THEN [manager |-> [m EXCEPT !.result = NoResult], storage |-> storage]
    ELSE LET deleted == [m EXCEPT !.presets = Delete(@, presetKey),
                                  !.result = [NoResult EXCEPT !.flag = TRUE]]
         IN  [manager |-> deleted, storage |-> saveUserPresets(deleted)]

\* The properties applyPreset passes on: the colour strings, if there are
\* any, as THREE.Color objects.
Converted(properties) ==
    [k \in DOMAIN properties |->
        IF k \in {"baseColor", "accentColor"} THEN Color(properties[k])
        ELSE properties[k]]

\* PresetManager.applyPreset on the engine w; draws are used when the engine
\* recreates its particles. The page has none of the controls
\* updateUIFromPreset looks for. The result has the manager and the engine.
applyPreset(m, w, presetKey, draws) ==
    IF presetKey \notin DOMAIN m.presets
    THEN [manager |-> [m EXCEPT !.result = NoResult], world |-> w]
    ELSE LET preset == m.presets[presetKey]
             updated == updateProperties(w, Converted(preset.properties), draws)
             animated == IF "animation" \in DOMAIN preset
                         THEN setPreset(updated, preset.animation)
                         ELSE updated
         IN  [manager |-> [m EXCEPT !.currentPreset = presetKey,
                                    !.result = [NoResult EXCEPT !.flag = TRUE]],
              world |-> animated]

\* Whether the forEach of importPresets stores the entry: preset.name &&
\* preset.properties.
Importable(preset) == "name" \in DOMAIN preset /\ "properties" \in DOMAIN preset

\* Whether reading preset.name throws: the entry is null.
IsNull(preset) == "null" \in DOMAIN preset

\* The forEach of importPresets over the entries from the given one on, at
\* the wall-clock time t; an entry that throws ends it.
RECURSIVE importEntries(_, _, _, _)
importEntries(m, entries, from, t) ==
    IF from > Len(entries) THEN m
    ELSE LET preset == entries[from]
         IN  IF IsNull(preset) THEN [m EXCEPT !.result.thrown = TRUE]
             ELSE IF ~Importable(preset)
             THEN importEntries(m, entries, from + 1, t)
             ELSE importEntries(
                      [m EXCEPT
                        !.presets = Set(@, generatePresetKey(m, preset.name),
                                        With(With(preset, "isDefault", FALSE),
                                             "imported", t)),
                        !.result.count = @ + 1],
                      entries, from + 1, t)

\* PresetManager.importPresets of the parsed data, at the wall-clock time t;
\* storage is the item as it was. What it throws is rethrown as an Error.
importPresets(m, storage, data, t) ==
    LET entered == [m EXCEPT !.result = NoResult]
    IN  IF ~data.valid
        THEN [manager |-> [entered EXCEPT !.result.thrown = TRUE],
              storage |-> storage]
        ELSE IF "presets" \notin DOMAIN data
        THEN [manager |-> entered, storage |-> storage]
        ELSE LET imported == importEntries(entered, data.presets, 1, t)
             IN  IF imported.result.thrown
                 THEN [manager |-> [imported EXCEPT !.result.count = 0],
                       storage |-> storage]
                 ELSE [manager |-> imported,
                       storage |-> saveUserPresets(imported)]

\* PresetManager.getCurrentPreset.
getCurrentPreset(m) == m.currentPreset

\* ------------------------------------------------------------ construction
\* The fields the constructor sets, before init() creates the particles.
Constructed(count) ==
    [animationId |-> NoFrame, isPlaying |-> TRUE, time |-> 0, speed |-> 10,
     rotationSpeed |-> 5, particleCount |-> count, particleSize |-> 20,
     particleShape |-> "circle", baseColor |-> Red, accentColor |-> Teal,
     colorTransition |-> TRUE, mouse |-> <<0, 0>>, mouseInfluence |-> 100,
     mouseInteraction |-> TRUE, currentPreset |-> "default",
     particleGeometry |-> 0, position |-> <<>>, color |-> <<>>, size |-> <<>>,
     velocity |-> <<>>, phase |-> <<>>, positionVersion |-> 0,
     colorVersion |-> 0, uniforms |-> NewMaterial([baseColor |-> Red,
     accentColor |-> Teal, size |-> 20, shape |-> "circle"]),
     cameraPosition |-> <<0, 0, 100 * PosScale>>, renderCalls |-> 0,
     populationDisposed |-> FALSE, rendererDisposed |-> FALSE, pending |-> {},
     nextId |-> 1]

\* The state is the record w.
Is(w) ==
    /\ animationId = w.animationId
    /\ isPlaying = w.isPlaying
    /\ time = w.time
    /\ speed = w.speed
    /\ rotationSpeed = w.rotationSpeed
    /\ particleCount = w.particleCount
    /\ particleSize = w.particleSize
    /\ particleShape = w.particleShape
    /\ baseColor = w.baseColor
    /\ accentColor = w.accentColor
    /\ colorTransition = w.colorTransition
    /\ mouse = w.mouse
    /\ mouseInfluence = w.mouseInfluence
    /\ mouseInteraction = w.mouseInteraction
    /\ currentPreset = w.currentPreset
    /\ particleGeometry = w.particleGeometry
    /\ position = w.position
    /\ color = w.color
    /\ size = w.size
    /\ velocity = w.velocity
    /\ phase = w.phase
    /\ positionVersion = w.positionVersion
    /\ colorVersion = w.colorVersion
    /\ uniforms = w.uniforms
    /\ cameraPosition = w.cameraPosition
    /\ renderCalls = w.renderCalls
    /\ populationDisposed = w.populationDisposed
    /\ rendererDisposed = w.rendererDisposed
    /\ pending = w.pending
    /\ nextId = w.nextId

\* new ParticleSystem(canvasId): the constructor, then init(). The model's
\* particle counts stand for the constructor's 5000.
Init ==
    /\ \E draws \in Populations(MaxParticles) :
          Is(createParticles(Constructed(MaxParticles), draws))
    /\ calls = 0
    /\ op = "new"
    /\ performanceMonitor = NewPerformanceMonitor
    /\ solarSystem = NoSolarSystem
    /\ uiController = NewUIController
    /\ document = NewDocument
    /\ now = 0
    /\ localStorage = NoItem
    /\ presetManager = PresetManager_constructor(NoItem)

\* ---------------------------------------------------------------- actions
\* Whether the host can still hand out a frame id within the bound.
CanRequestFrame == nextId <= MaxFrameId
\* Whether one more population can be created within the bound.
CanCreate == particleGeometry < MaxPopulations
\* Whether one more configuration call fits the bound.
CanCall == calls < MaxCalls

Start ==
    /\ CanRequestFrame
    /\ Install(start(World))
    /\ UNCHANGED calls
    /\ op' = "start"

Pause ==
    /\ Install(pause(World))
    /\ UNCHANGED calls
    /\ op' = "pause"

Resume ==
    /\ isPlaying \/ CanRequestFrame
    /\ Install(resume(World))
    /\ UNCHANGED calls
    /\ op' = "resume"

\* The host runs a requested frame callback.
FrameFire ==
    /\ pending # {}
    /\ isPlaying => CanRequestFrame
    /\ Install(runFrame(World))
    /\ UNCHANGED calls
    /\ op' = "frame"

Reset ==
    /\ CanCreate
    /\ \E draws \in Populations(particleCount) : Install(reset(World, draws))
    /\ UNCHANGED calls
    /\ op' = "reset"

Dispose ==
    /\ Install(dispose(World))
    /\ UNCHANGED calls
    /\ op' = "dispose"

SetPreset ==
    /\ CanCall
    /\ \E presetName \in Presets : Install(setPreset(World, presetName))
    /\ calls' = calls + 1
    /\ op' = "setPreset"

MouseMove ==
    /\ CanCall
    /\ \E p \in PointerPositions : Install(mousemove(World, p[1], p[2]))
    /\ calls' = calls + 1
    /\ op' = "mousemove"

\* The property bags updateProperties is called with: a count, a shape, the
\* size, the colours, the speeds, the toggles with the pointer strength, and a
\* whole bag as PresetManager.applyPreset passes it.
PropertyBags ==
    {[particleCount |-> v] : v \in ParticleCounts}
    \cup {[particleShape |-> v] : v \in {"circle", "star", "triangle"}}
    \cup {[particleSize |-> 0],
          [baseColor |-> Indigo, accentColor |-> Indigo],
          [speed |-> 5, rotationSpeed |-> 0],
          [colorTransition |-> FALSE, mouseInteraction |-> FALSE,
           mouseInfluence |-> 500]}
    \cup {[baseColor |-> Indigo, accentColor |-> Teal, particleSize |-> 30,
           particleCount |-> 1, speed |-> 5, rotationSpeed |-> 5,
           colorTransition |-> TRUE, mouseInteraction |-> TRUE,
           particleShape |-> "heart"]}

\* The bags that switch the colour transition or the mouse interaction.
ToggleBags ==
    {[colorTransition |-> FALSE], [colorTransition |-> TRUE],
     [mouseInteraction |-> FALSE]}

UpdateToggles ==
    /\ CanCall
    /\ \E properties \in ToggleBags :
          Install(updateProperties(World, properties, <<>>))
    /\ calls' = calls + 1
    /\ op' = "updateProperties"

UpdateProperties ==
    /\ CanCall
    /\ \E properties \in PropertyBags :
          IF needsRecreate(World, properties)
          THEN /\ CanCreate
               /\ \E draws \in Populations(Assign(World, properties).particleCount) :
                     Install(updateProperties(World, properties, draws))
          ELSE Install(updateProperties(World, properties, <<>>))
    /\ calls' = calls + 1
    /\ op' = "updateProperties"

\* The bags that give a particle count, alone or with a shape and a toggle.
CountBags ==
    {[particleCount |-> v] : v \in ParticleCounts}
    \cup {[particleCount |-> 1, particleShape |-> "star", colorTransition |-> FALSE]}

UpdateCount ==
    /\ CanCall
    /\ \E properties \in CountBags :
          IF needsRecreate(World, properties)
          THEN /\ CanCreate
               /\ \E draws \in Populations(Assign(World, properties).particleCount) :
                     Install(updateProperties(World, properties, draws))
          ELSE Install(updateProperties(World, properties, <<>>))
    /\ calls' = calls + 1
    /\ op' = "updateProperties"

\* The bags that give a speed: reversed, stopped, doubled.
SpeedBags == {[speed |-> -10], [speed |-> 0], [speed |-> 20]}

UpdateSpeed ==
    /\ CanCall
    /\ \E properties \in SpeedBags :
          Install(updateProperties(World, properties, <<>>))
    /\ calls' = calls + 1
    /\ op' = "updateProperties"

\* The engine after the host has let animate() run n times in a row; once
\* isPlaying is false no further call of animate() changes anything.
RECURSIVE Frames(_, _)
Frames(w, n) ==
    IF n = 0 THEN w
    ELSE LET next == animate(w)
         IN  IF next.isPlaying THEN Frames(next, n - 1) ELSE next

\* The bags that give a shape: two the shader knows, one it does not, and one
\* that names a member every object inherits.
ShapeBags ==
    {[particleShape |-> v] : v \in {"square", "heart", "triangle", "constructor"}}

UpdateShape ==
    /\ CanCall
    /\ \E properties \in ShapeBags :
          IF needsRecreate(World, properties)
          THEN /\ CanCreate
               /\ \E draws \in Populations(particleCount) :
                     Install(updateProperties(World, properties, draws))
          ELSE Install(updateProperties(World, properties, <<>>))
    /\ calls' = calls + 1
    /\ op' = "updateProperties"

\* Whether the host can still hand the monitor a frame id within the bound.
CanRequestMonitorFrame == performanceMonitor.nextId <= MaxMonitorFrames
\* Whether one more callback fits the bound.
CanRegister == Len(performanceMonitor.callbacks) < MaxCallbacks

MonitorStart ==
    /\ performanceMonitor.isRunning \/ CanRequestMonitorFrame
    /\ \E callback \in Callbacks \cup {NoCallback}, deltaTime \in StartDurations :
          /\ (callback # NoCallback /\ ~performanceMonitor.isRunning) => CanRegister
          /\ performanceMonitor' =
                PerformanceMonitor_start(Entered(performanceMonitor), callback, deltaTime)
    /\ op' = "monitor.start"
    /\ UNCHANGED <<engineVars, presetVars, calls, pageVars>>

MonitorStop ==
    /\ performanceMonitor' = PerformanceMonitor_stop(Entered(performanceMonitor))
    /\ op' = "monitor.stop"
    /\ UNCHANGED <<engineVars, presetVars, calls, pageVars>>

MonitorAddCallback ==
    /\ CanRegister
    /\ \E callback \in Callbacks :
          performanceMonitor' = addCallback(Entered(performanceMonitor), callback)
    /\ op' = "monitor.addCallback"
    /\ UNCHANGED <<engineVars, presetVars, calls, pageVars>>

MonitorRemoveCallback ==
    /\ \E callback \in Callbacks :
          performanceMonitor' = removeCallback(Entered(performanceMonitor), callback)
    /\ op' = "monitor.removeCallback"
    /\ UNCHANGED <<engineVars, presetVars, calls, pageVars>>

\* The host runs a frame callback the monitor requested.
MonitorFrame ==
    /\ performanceMonitor.pending # {}
    /\ performanceMonitor.isRunning => CanRequestMonitorFrame
    /\ \E deltaTime \in FrameDurations :
          performanceMonitor' =
              PerformanceMonitor_runFrame(Entered(performanceMonitor), deltaTime)
    /\ op' = "monitor.frame"
    /\ UNCHANGED <<engineVars, presetVars, calls, pageVars>>

\* The planet names and multipliers the sliders and other callers give, and a
\* name no planet has.
PlanetNames == {"Mercury", "Earth", "Neptune", "Pluto"}
\* The planets whose sliders the user moves: Mercury, Earth and Neptune.
SliderPlanets == {1, 3, 8}
PlanetSpeeds == {0, 25}
GlobalSpeeds == {5, 50}

InitializeComponents ==
    /\ ~solarSystem.componentsInitialized
    /\ \E first \in PlanetAngles, second \in PlanetAngles :
          solarSystem' = initializeComponents(first, second)
    /\ uiController' = NewUIController
    /\ op' = "initializeComponents"
    /\ UNCHANGED <<engineVars, presetVars, calls, performanceMonitor, document, now>>

SetPlanetSpeed ==
    /\ solarSystem.componentsInitialized
    /\ CanCall
    /\ \E planetName \in PlanetNames, multiplier \in PlanetSpeeds :
          solarSystem' = setPlanetSpeed(solarSystem, planetName, multiplier)
    /\ calls' = calls + 1
    /\ op' = "setPlanetSpeed"
    /\ UNCHANGED <<engineVars, presetVars, performanceMonitor, uiController, document, now>>

SetGlobalSpeed ==
    /\ solarSystem.componentsInitialized
    /\ CanCall
    /\ \E multiplier \in GlobalSpeeds :
          solarSystem' = setGlobalSpeed(solarSystem, multiplier)
    /\ calls' = calls + 1
    /\ op' = "setGlobalSpeed"
    /\ UNCHANGED <<engineVars, presetVars, performanceMonitor, uiController, document, now>>

\* The solar system, its controller and the page as one record, as the
\* handlers of UIController and App take it.
Page == [solarSystem |-> solarSystem, uiController |-> uiController,
         document |-> document]

\* The next state of the solar system, its controller and the page is a.
InstallPage(a) ==
    /\ solarSystem' = a.solarSystem
    /\ uiController' = a.uiController
    /\ document' = a.document

\* Whether the frame ids a has handed out stay within the bound.
WithinSolarFrames(a) == a.solarSystem.nextId <= MaxSolarFrames + 1

\* The time between two frames of the solar system (a 60 Hz display), and
\* the time the page stays paused or hidden.
FrameMs == 16
PauseMs == 5000

\* App.init after initializeComponents: setupEventListeners(), then start(),
\* which starts the solar system and the monitor.
AppStart ==
    /\ solarSystem.componentsInitialized
    /\ ~document.listening
    /\ solarSystem' = SolarSystem_start(solarSystem, now)
    /\ document' = [document EXCEPT !.listening = TRUE]
    /\ performanceMonitor' =
          PerformanceMonitor_start(Entered(performanceMonitor), "display", 0)
    /\ op' = "App.start"
    /\ UNCHANGED <<engineVars, presetVars, calls, uiController, now>>

\* The Reset button or the R key.
UIReset ==
    /\ document.listening
    /\ \E angles \in PlanetAngles : InstallPage(UIController_reset(Page, angles))
    /\ op' = "UIController.reset"
    /\ UNCHANGED <<engineVars, presetVars, calls, performanceMonitor, now>>

\* The user switches one of the four checkboxes.
VisualChange ==
    /\ document.listening
    /\ CanCall
    /\ \E setting \in {"showOrbits", "showLabels", "showStars", "darkMode"},
          checked \in BOOLEAN :
          InstallPage(visualChange(Page, setting, checked))
    /\ calls' = calls + 1
    /\ op' = "visualChange"
    /\ UNCHANGED <<engineVars, presetVars, performanceMonitor, now>>

\* The user moves the global speed slider.
GlobalSpeedInput ==
    /\ document.listening
    /\ CanCall
    /\ \E multiplier \in GlobalSpeeds :
          InstallPage(globalSpeedInput(Page, multiplier))
    /\ calls' = calls + 1
    /\ op' = "globalSpeedInput"
    /\ UNCHANGED <<engineVars, presetVars, performanceMonitor, now>>

\* The user moves the speed slider of a planet.
PlanetSpeedInput ==
    /\ document.listening
    /\ CanCall
    /\ \E i \in SliderPlanets, multiplier \in PlanetSpeeds :
          InstallPage(planetSpeedInput(Page, i, multiplier))
    /\ calls' = calls + 1
    /\ op' = "planetSpeedInput"
    /\ UNCHANGED <<engineVars, presetVars, performanceMonitor, now>>

\* The Play/Pause button or the Space key.
TogglePlayPause ==
    /\ document.listening
    /\ WithinSolarFrames(togglePlayPause(Page, now))
    /\ InstallPage(togglePlayPause(Page, now))
    /\ op' = "togglePlayPause"
    /\ UNCHANGED <<engineVars, presetVars, calls, performanceMonitor, now>>

\* The tab becomes hidden or visible.
VisibilityChange ==
    /\ document.listening
    /\ WithinSolarFrames(visibilitychange(Page, ~document.hidden, now))
    /\ InstallPage(visibilitychange(Page, ~document.hidden, now))
    /\ op' = "visibilitychange"
    /\ UNCHANGED <<engineVars, presetVars, calls, performanceMonitor, now>>

\* The host runs the frame callback the solar system requested, FrameMs after
\* the previous event; a hidden page runs no frame callbacks.
SolarFrame ==
    /\ solarSystem.pending # {}
    /\ ~document.hidden
    /\ solarSystem.isPlaying => solarSystem.nextId <= MaxSolarFrames
    /\ now' = now + FrameMs
    /\ LET id == CHOOSE x \in solarSystem.pending :
                     \A y \in solarSystem.pending : x <= y
       IN  solarSystem' =
               SolarSystem_animate([solarSystem EXCEPT !.pending = @ \ {id}], now')
    /\ op' = "solar.frame"
    /\ UNCHANGED <<engineVars, presetVars, calls, performanceMonitor, uiController, document>>

\* PauseMs pass while no frame of the solar system is requested.
Wait ==
    /\ solarSystem.pending = {}
    /\ document.listening
    /\ now \div PauseMs < MaxWaits
    /\ now' = now + PauseMs
    /\ op' = "wait"
    /\ UNCHANGED <<engineVars, presetVars, calls, performanceMonitor, solarSystem,
                   uiController, document>>

\* App.dispose (beforeunload): the listeners of the page stay registered.
AppDispose ==
    /\ document.listening
    /\ solarSystem' = SolarSystem_dispose(solarSystem)
    /\ performanceMonitor' = PerformanceMonitor_stop(Entered(performanceMonitor))
    /\ op' = "App.dispose"
    /\ UNCHANGED <<engineVars, presetVars, calls, uiController, document, now>>

\* The names presets are created with: one that lowers to the key of a
\* default preset, and one that is the key the first gets.
PresetNames ==
    {<<"G", "a", "l", "a", "x", "y">>,
     <<"g", "a", "l", "a", "x", "y", "_", "1">>}

\* The properties of the presets in the imported files.
ImportedProperties ==
    [baseColor |-> <<102, 126, 234>>, accentColor |-> <<78, 205, 196>>,
     particleSize |-> 30, speed |-> 5, particleShape |-> "circle"]

\* The parsed files importPresets is given: text that is not JSON, data
\* without presets, a preset named like a default one with entries that
\* lack a name or the properties, two presets of one name, and a preset
\* followed by a null entry.
ImportFiles ==
    {[valid |-> FALSE],
     [valid |-> TRUE],
     [valid |-> TRUE,
      presets |-> <<[name |-> <<"G", "a", "l", "a", "x", "y">>,
                     properties |-> ImportedProperties, animation |-> "wave"],
                    [properties |-> ImportedProperties],
                    [name |-> <<"M", "y", " ", "F", "X">>]>>],
     [valid |-> TRUE,
      presets |-> <<[name |-> <<"M", "y", " ", "F", "X">>,
                     properties |-> ImportedProperties],
                    [name |-> <<"M", "y", " ", "F", "X">>,
                     properties |-> ImportedProperties, isDefault |-> TRUE]>>],
     [valid |-> TRUE,
      presets |-> <<[name |-> <<"M", "y", " ", "F", "X">>,
                     properties |-> ImportedProperties],
                    [null |-> TRUE]>>]}

\* The keys deletePreset and applyPreset are called with: that of a default
\* preset, those of the user's presets, the current one, and one the store
\* never has.
CalledKeys ==
    {"galaxy", "missing"}
    \cup {k \in DOMAIN presetManager.presets : ~presetManager.presets[k].isDefault}
    \cup ({presetManager.currentPreset} \ {NoPreset})

\* Whether one more call of the preset manager fits the bound.
CanCallPresets == calls < MaxPresetCalls

\* The user presets of the manager m, and whether they fit the bound.
UserKeys(m) == {k \in DOMAIN m.presets : ~m.presets[k].isDefault}
WithinStore(m) == Cardinality(UserKeys(m)) <= MaxUserPresets

CreatePreset ==
    /\ CanCallPresets
    /\ calls' = calls + 1
    /\ \E name \in PresetNames :
          LET done == createPreset(presetManager, World, name, now)
          IN  /\ WithinStore(done.manager)
              /\ presetManager' = done.manager
              /\ localStorage' = done.storage
    /\ op' = "createPreset"
    /\ UNCHANGED <<engineVars, performanceMonitor, pageVars>>

DeletePreset ==
    /\ CanCallPresets
    /\ calls' = calls + 1
    /\ \E presetKey \in CalledKeys :
          LET done == deletePreset(presetManager, localStorage, presetKey)
          IN  /\ presetManager' = done.manager
              /\ localStorage' = done.storage
    /\ op' = "deletePreset"
    /\ UNCHANGED <<engineVars, performanceMonitor, pageVars>>

ImportPresets ==
    /\ CanCallPresets
    /\ calls' = calls + 1
    /\ \E data \in ImportFiles :
          LET done == importPresets(presetManager, localStorage, data, now)
          IN  /\ WithinStore(done.manager)
              /\ presetManager' = done.manager
              /\ localStorage' = done.storage
    /\ op' = "importPresets"
    /\ UNCHANGED <<engineVars, performanceMonitor, pageVars>>

ApplyPreset ==
    /\ CanCallPresets
    /\ calls' = calls + 1
    /\ \E presetKey \in CalledKeys :
          LET recreates ==
                  /\ presetKey \in DOMAIN presetManager.presets
                  /\ needsRecreate(World,
                         Converted(presetManager.presets[presetKey].properties))
              count ==
                  IF recreates
                  THEN Assign(World, presetManager.presets[presetKey].properties)
                           .particleCount
                  ELSE particleCount
          IN  /\ recreates => CanCreate
              /\ \E draws \in Populations(count) :
                    LET done == applyPreset(presetManager, World, presetKey, draws)
                    IN  /\ presetManager' = done.manager
                        /\ InstallEngine(done.world)
    /\ op' = "applyPreset"
    /\ UNCHANGED <<performanceMonitor, pageVars, localStorage>>

\* The page is loaded again: a new PresetManager reads the storage.
ReloadPresets ==
    /\ presetManager' = PresetManager_constructor(localStorage)
    /\ op' = "new PresetManager"
    /\ UNCHANGED <<engineVars, calls, performanceMonitor, pageVars, localStorage>>

\* Playback and lifecycle.
Next == Start \/ Pause \/ Resume \/ FrameFire \/ Reset \/ Dispose

Spec == Init /\ [][Next]_vars

\* Property updates between frames.
NextConfig == Start \/ FrameFire \/ Reset \/ UpdateProperties

SpecConfig == Init /\ [][NextConfig]_vars

\* Count changes, presets and resets between frames.
NextBuffers == Start \/ FrameFire \/ Reset \/ SetPreset \/ UpdateCount

SpecBuffers == Init /\ [][NextBuffers]_vars

\* Presets and toggles between frames.
NextFrames == Start \/ FrameFire \/ SetPreset \/ UpdateToggles

SpecFrames == Init /\ [][NextFrames]_vars

\* Speed changes between frames.
NextSpeed == Start \/ Pause \/ Resume \/ FrameFire \/ Reset \/ UpdateSpeed

SpecSpeed == Init /\ [][NextSpeed]_vars

\* Shape changes between frames.
NextShapes == Start \/ Pause \/ FrameFire \/ Reset \/ UpdateShape

SpecShapes == Init /\ [][NextShapes]_vars

\* The performance monitor and its callbacks.
NextMonitor ==
    \/ MonitorStart \/ MonitorStop \/ MonitorAddCallback \/ MonitorRemoveCallback
    \/ MonitorFrame

SpecMonitor == Init /\ [][NextMonitor]_vars

\* The solar system: initialisation and speed controls.
NextSolar == InitializeComponents \/ SetPlanetSpeed \/ SetGlobalSpeed

SpecSolar == Init /\ [][NextSolar]_vars

\* The controls of the solar system and the Reset button.
NextControls ==
    \/ InitializeComponents \/ AppStart \/ GlobalSpeedInput \/ PlanetSpeedInput
    \/ VisualChange \/ UIReset

SpecControls == Init /\ [][NextControls]_vars

\* Playing, pausing, hiding and showing the page, and leaving it.
NextPlayback ==
    \/ InitializeComponents \/ AppStart \/ TogglePlayPause \/ VisibilityChange
    \/ SolarFrame \/ Wait \/ AppDispose

SpecPlayback == Init /\ [][NextPlayback]_vars

\* The preset manager, the storage and the engine it configures.
NextPresets ==
    CreatePreset \/ DeletePreset \/ ImportPresets \/ ApplyPreset \/ ReloadPresets

SpecPresets == Init /\ [][NextPresets]_vars

\* ----------------------------------------------------------------- claims
\* The five attribute arrays.
buffers == <<position, color, size, velocity, phase>>

\* Only start() and resume() make a paused engine play.
OnlyStartOrResumePlays == (~isPlaying /\ isPlaying') => op' \in {"start", "resume"}

\* C1: once pause() has returned and until the next start() or resume(), no
\* frame callback the host fires changes the elapsed time or an attribute
\* array: pause() leaves the engine not playing, only start() and resume()
\* make it play again, and a frame fired while it is not playing changes
\* neither the time nor the arrays.
C1_PausedFramesChangeNothing ==
    [][/\ op' = "pause" => ~isPlaying'
       /\ OnlyStartOrResumePlays
       /\ (~isPlaying /\ op' = "frame") => UNCHANGED <<time, buffers>>]_vars

\* A frame left over from a second start() has fired while the engine was paused.
C1_Witness == op = "frame" /\ ~isPlaying /\ ~rendererDisposed /\ time > 0

\* C2: from a playing engine with one frame pending, pause(), resume() and one
\* frame give the elapsed time and the arrays that one frame alone gives.
C2_PauseResumeAddsNoStep ==
    (isPlaying /\ Cardinality(pending) = 1) =>
        LET detour == runFrame(resume(pause(World)))
            direct == runFrame(World)
        IN  /\ detour.time = direct.time
            /\ detour.position = direct.position
            /\ detour.color = direct.color
            /\ detour.size = direct.size
            /\ detour.velocity = direct.velocity
            /\ detour.phase = direct.phase

\* C3: at most one frame callback of the engine is pending at any moment.
C3_AtMostOnePendingFrame == Cardinality(pending) <= 1

\* C4: a call to start() or to resume(), from every state, leaves the engine
\* playing with a frame callback scheduled.
C4_StartResumeLeaveLoopRunning ==
    op \in {"start", "resume"} =>
        isPlaying /\ animationId # NoFrame /\ animationId \in pending

\* C5: after dispose(), as long as neither start() nor resume() is called, a
\* frame callback scheduled before it, cancelled or not, advances no time,
\* writes no buffer and renders nothing when the host fires it: dispose()
\* leaves the engine not playing, only start() and resume() make it play, and
\* a frame fired on a disposed engine that is not playing changes nothing of
\* the time, the arrays, their versions, the uniforms and the render count.
C5_DisposedFramesDoNothing ==
    [][/\ op' = "dispose" => (~isPlaying' /\ rendererDisposed')
       /\ OnlyStartOrResumePlays
       /\ (rendererDisposed /\ ~isPlaying /\ op' = "frame") =>
              UNCHANGED <<time, buffers, positionVersion, colorVersion, uniforms,
                          cameraPosition, renderCalls>>]_vars

\* A frame that dispose() did not cancel has fired after it.
C5_Witness == op = "frame" /\ rendererDisposed /\ ~isPlaying /\ renderCalls > 0

\* C6: reset() sets the elapsed time to 0, replaces the population by a new
\* one of the configured count, and leaves the play state and the pending
\* frames as they were.
C6_ResetZeroesTimeAndRecreates ==
    [][op' = "reset" =>
          /\ time' = 0
          /\ particleGeometry' = particleGeometry + 1
          /\ particleCount' = particleCount
          /\ Len(phase') = particleCount /\ Len(size') = particleCount
          /\ Len(position') = 3 * particleCount
          /\ Len(color') = 3 * particleCount
          /\ Len(velocity') = 3 * particleCount
          /\ positionVersion' = 0 /\ uniforms'.time = 0
          /\ UNCHANGED <<isPlaying, pending, animationId>>]_vars

\* reset() has run on a playing engine whose time had advanced.
C6_Witness == op = "reset" /\ isPlaying /\ pending # {} /\ renderCalls > 0 /\ time = 0

\* C7: the five attribute arrays describe particleCount particles.
C7_ArraysMatchParticleCount ==
    /\ Len(position) = 3 * particleCount
    /\ Len(velocity) = 3 * particleCount
    /\ Len(color) = 3 * particleCount
    /\ Len(size) = particleCount
    /\ Len(phase) = particleCount

\* A frame has run, under a preset, over a population that updateProperties
\* made smaller.
C7_Witness ==
    /\ op = "frame"
    /\ particleCount < MaxParticles
    /\ currentPreset = "galaxy"
    /\ positionVersion > 0

\* C8: updateProperties recreates the population exactly when it changes the
\* particle count or the particle shape; any other update keeps the phase,
\* size and velocity arrays, the play state and the elapsed time.
C8_RecreateIffCountOrShape ==
    [][op' = "updateProperties" =>
          /\ (particleGeometry' # particleGeometry)
                <=> (particleCount' # particleCount \/ particleShape' # particleShape)
          /\ particleGeometry' = particleGeometry =>
                UNCHANGED <<phase, size, velocity, isPlaying, time>>]_vars

\* updateProperties has changed the colours of a running engine in place.
C8_Witness ==
    /\ op = "updateProperties"
    /\ particleGeometry = 1
    /\ baseColor = Indigo
    /\ time > 0

\* C9: a frame advance never writes the phase, size or velocity array.
C9_FramesKeepPhaseSizeVelocity ==
    [][renderCalls' # renderCalls => UNCHANGED <<phase, size, velocity>>]_vars

\* Frames have run under the spiral preset with the colour transition off.
C9_Witness ==
    op = "frame" /\ currentPreset = "spiral" /\ ~colorTransition /\ positionVersion >= 2

\* C10: while colorTransition is false no frame advance changes the color array.
C10_NoTransitionKeepsColors ==
    [][(renderCalls' # renderCalls /\ ~colorTransition) => color' = color]_vars

\* Two frames have run with the colour transition off since creation.
C10_Witness ==
    op = "frame" /\ ~colorTransition /\ colorVersion = 0 /\ positionVersion >= 2

\* C11: the elapsed time never decreases from one step to the next unless
\* reset() zeroes it, whatever speed updateProperties was given, and only an
\* executed frame or reset() changes it.
C11_TimeNeverDecreases ==
    [][/\ (time' >= time \/ op' = "reset")
       /\ time' # time => (renderCalls' # renderCalls \/ op' = "reset")]_vars

\* C12: sixty executed frames at speed 1.0 from elapsed time 0 end at elapsed
\* time 1.0.
C12_SixtyFramesMakeOneSecond ==
    (time = 0 /\ speed = 10 /\ isPlaying) => Frames(World, 60).time = 10000

\* The position array an executed frame writes when the preset step leaves
\* every position where it was: pointer push and jitter only.
PositionsUnderIdentity ==
    UpdatedPositions([World EXCEPT !.time = time', !.currentPreset = "default"])

\* C13: setPreset(name) stores any name, and while the name is none of the
\* six presets every executed frame completes and writes the positions that
\* the identity motion of 'default' gives.
C13_UnknownPresetIsIdentity ==
    [][/\ op' = "setPreset" => currentPreset' \in Presets
       /\ (op' = "frame" /\ isPlaying /\ currentPreset \notin KnownPresets) =>
              /\ renderCalls' = renderCalls + 1
              /\ position' = PositionsUnderIdentity
              /\ \A i \in 1 .. particleCount :
                    LET p == <<position[3 * i - 2], position[3 * i - 1], position[3 * i]>>
                    IN  applyPresetAnimation(currentPreset, p, i - 1, time') = p]_vars

\* Frames have run under a preset name the engine does not know.
C13_Witness ==
    op = "frame" /\ isPlaying /\ currentPreset = "vortex" /\ positionVersion >= 2

\* C14: the shape selector of the material is 0, 1, 2, 3 for circle, square,
\* star, heart and 0 for every other particleShape the population was created
\* with.
C14_UnknownShapeIsCircle ==
    /\ particleShape = "circle" => uniforms.shapeType = 0
    /\ particleShape = "square" => uniforms.shapeType = 1
    /\ particleShape = "star" => uniforms.shapeType = 2
    /\ particleShape = "heart" => uniforms.shapeType = 3
    /\ particleShape \notin KnownShapes => uniforms.shapeType = 0

\* The position array an executed frame writes when the pointer step is left
\* out: preset motion and jitter only.
PositionsWithoutPointer ==
    UpdatedPositions([World EXCEPT !.time = time', !.mouseInteraction = FALSE])

\* C15: while the stored pointer still has its initial value, an executed
\* frame with mouseInteraction enabled writes the preset result plus jitter,
\* with no interaction displacement.
C15_InitialPointerPushesNothing ==
    [][(renderCalls' # renderCalls /\ mouseInteraction /\ mouse = <<0, 0>>) =>
          position' = PositionsWithoutPointer]_vars

\* C16: every executed frame marks the position attribute for upload, marks
\* the color attribute for upload exactly when colorTransition is enabled, and
\* leaves the material's time uniform equal to the elapsed time.
C16_FrameMarksUploads ==
    [][renderCalls' # renderCalls =>
          /\ positionVersion' = positionVersion + 1
          /\ colorVersion' = (IF colorTransition THEN colorVersion + 1 ELSE colorVersion)
          /\ uniforms'.time = time']_vars

\* Frames have run with the colour transition on and then with it off.
C16_Witness ==
    /\ op = "frame"
    /\ ~colorTransition
    /\ colorVersion >= 1
    /\ positionVersion > colorVersion
    /\ uniforms.time = time
    /\ time > 0

\* The position of particle i (from 1) in a flat array.
ParticleAt(array, i) == <<array[3 * i - 2], array[3 * i - 1], array[3 * i]>>

\* The horizontal radius sqrt(x^2 + z^2) of a position.
HorizontalRadius(p) == Sqrt(p[1] * p[1] + p[3] * p[3])

\* C17 as stated: an executed frame under the spiral preset leaves every
\* particle's horizontal radius where it was, within 0.05.
C17_SpiralFrameKeepsRadius ==
    [][(renderCalls' # renderCalls /\ currentPreset = "spiral") =>
          \A i \in 1 .. particleCount :
              Abs(HorizontalRadius(ParticleAt(position', i))
                  - HorizontalRadius(ParticleAt(position, i))) <= 5]_vars

\* C17 amended: in an executed frame under the spiral preset the preset step
\* gives every particle a logical position of the same height and, within
\* 0.05, the same horizontal radius, at the frame's time and at any other; the
\* position the frame writes adds the pointer push and the jitter, which move
\* the radius by at most the pointer strength plus 0.59.
C17_SpiralStepKeepsRadius ==
    [][(renderCalls' # renderCalls /\ currentPreset = "spiral") =>
          \A i \in 1 .. particleCount :
              LET before == ParticleAt(position, i)
              IN  /\ \A t \in {time', 7850, 15710, 40000} :
                        LET logical == applySpiralAnimation(before, i - 1, t)
                        IN  /\ logical[2] = before[2]
                            /\ Abs(HorizontalRadius(logical)
                                   - HorizontalRadius(before)) <= 5
                  /\ Abs(HorizontalRadius(ParticleAt(position', i))
                         - HorizontalRadius(before))
                        <= 5 + Div(mouseInfluence, 10) + 59]_vars

\* Frames have run under the spiral preset with the pointer step enabled.
C17_Witness ==
    /\ op = "frame"
    /\ currentPreset = "spiral"
    /\ mouseInteraction
    /\ positionVersion >= 2
    /\ time > 2 * TimeStep * speed

\* C18: when update() notifies, every registered callback is invoked, in
\* order, whether or not one of them throws; no exception leaves update(); and
\* the monitor requests its next frame.
C18_ThrowingCallbackIsIsolated ==
    [][(op' \in {"monitor.frame", "monitor.start"}
        /\ performanceMonitor'.frameCount # performanceMonitor.frameCount
        /\ performanceMonitor'.frameCount % 10 = 0) =>
          /\ performanceMonitor'.invoked = performanceMonitor'.callbacks
          /\ performanceMonitor'.errors =
                Cardinality({k \in DOMAIN performanceMonitor'.callbacks :
                                Throws(performanceMonitor'.callbacks[k])})
          /\ ~performanceMonitor'.thrown
          /\ performanceMonitor'.animationId \in performanceMonitor'.pending
          /\ performanceMonitor'.animationId \notin performanceMonitor.pending
          /\ performanceMonitor'.isRunning]_vars

\* A notification has reached a callback registered after one that threw.
C18_Witness ==
    /\ op = "monitor.frame"
    /\ performanceMonitor.frameCount = 10
    /\ performanceMonitor.callbacks = <<"faulty", "display">>
    /\ performanceMonitor.invoked = <<"faulty", "display">>
    /\ performanceMonitor.errors = 1

\* C19: once App.initializeComponents has completed the SolarSystem holds
\* exactly eight planets and eight orbit lines, one per planetData entry, and
\* the scene contains exactly one sun.
C19_EightPlanetsOneSun ==
    solarSystem.componentsInitialized =>
        /\ Len(solarSystem.planets) = 8
        /\ Len(solarSystem.orbitLines) = 8
        /\ \A i \in DOMAIN planetData :
              /\ Cardinality({k \in DOMAIN solarSystem.planets :
                     solarSystem.planets[k].name = planetData[i].name}) = 1
              /\ Cardinality({k \in DOMAIN solarSystem.orbitLines :
                     solarSystem.orbitLines[k].distance = planetData[i].distance}) = 1
        /\ Cardinality({k \in DOMAIN solarSystem.scene :
               solarSystem.scene[k] = "Sun"}) = 1

\* C20: setPlanetSpeed(name, s) gives the multiplier s to every planet of the
\* system whose name is name, leaves every other planet's multiplier and the
\* global speed as they were, and changes nothing when no planet has the name.
C20_SetPlanetSpeedReachesEveryNamesake ==
    solarSystem.componentsInitialized =>
        \A planetName \in PlanetNames, multiplier \in PlanetSpeeds :
            LET after == setPlanetSpeed(solarSystem, planetName, multiplier)
                named == {k \in DOMAIN solarSystem.planets :
                             solarSystem.planets[k].name = planetName}
            IN  /\ DOMAIN after.planets = DOMAIN solarSystem.planets
                /\ \A k \in DOMAIN solarSystem.planets :
                      after.planets[k].individualSpeed =
                          (IF k \in named THEN multiplier
                           ELSE solarSystem.planets[k].individualSpeed)
                /\ after.globalSpeed = solarSystem.globalSpeed
                /\ named = {} => after = solarSystem

\* The solar system of a runs at the default speeds with the default visual
\* settings.
AtDefaults(a) ==
    LET s == a.solarSystem
    IN  /\ s.globalSpeed = 10
        /\ \A i \in DOMAIN s.planets : s.planets[i].individualSpeed = 10
        /\ s.showOrbits /\ s.showLabels /\ s.showStars /\ ~s.darkMode
        /\ \A i \in DOMAIN s.orbitLines : s.orbitLines[i].visible
        /\ s.starsVisible

\* C21: UIController.reset(), called from any state, leaves the global speed
\* at 1.0, the speed multiplier of every planet at 1.0 and the visual settings
\* at their defaults (orbits, labels and stars shown, dark mode off): the
\* state after a reset is so, and so is the result of a reset from every
\* state the controls can produce.
C21_ResetRestoresDefaults ==
    /\ op = "UIController.reset" => AtDefaults(Page)
    /\ document.listening =>
          \A angles \in PlanetAngles : AtDefaults(UIController_reset(Page, angles))

\* A reset has run after the sliders or checkboxes were used twice.
C21_Witness == op = "UIController.reset" /\ calls >= 2

\* C22: after dispose() of the solar system no later call, such as the
\* resume() of the visibility listener that stays registered, makes it
\* request a frame, move a planet or render: disposal is terminal.
C22_DisposalIsTerminal ==
    [][solarSystem.rendererDisposed =>
          /\ solarSystem'.pending \subseteq solarSystem.pending
          /\ solarSystem'.planets = solarSystem.planets
          /\ solarSystem'.renderCalls = solarSystem.renderCalls]_vars

\* C23: whenever the page is visible, the solar system is animating (it is
\* playing and has a frame requested) if and only if the play state of the
\* controller is playing, after any interleaving of play/pause toggles and
\* visibility changes.
C23_VisiblePageFollowsPlayState ==
    (document.listening /\ ~document.hidden /\ ~solarSystem.rendererDisposed) =>
        ((solarSystem.isPlaying /\ solarSystem.pending # {})
            <=> uiController.isPlaying)

\* The angle a planet of s covers in one frame of FrameMs.
OrdinaryStep(s, i) ==
    Div(Div(s.planets[i].speed * s.planets[i].individualSpeed * s.globalSpeed, 10)
        * FrameMs, 100)

\* C24: the step that makes a paused solar system play again moves no
\* planet by more than the angle of an ordinary single frame, however long
\* the pause lasted.
C24_ResumeAddsNoPausedTime ==
    [][(~solarSystem.isPlaying /\ solarSystem'.isPlaying) =>
          \A i \in DOMAIN solarSystem.planets :
              solarSystem'.planets[i].angle - solarSystem.planets[i].angle
                  <= OrdinaryStep(solarSystem, i)]_vars

\* The distance explosionFactor * 2 of the explosion preset at time t, in
\* position units.
ExplosionAmount(t) == Div(Div(Sin(Div(t, 20)), 2) + 500, 5)

\* The position updateParticles writes for particle i of w when the preset
\* step has given it the logical position q.
WrittenFrom(w, i, q) ==
    LET pushed == IF w.mouseInteraction THEN MouseInteraction(w, q) ELSE q
        t == Div(w.time, 10)
    IN  <<pushed[1] + Div(Sin(t + w.phase[i]), 20),
          pushed[2] + Div(Cos(t + w.phase[i]), 20),
          pushed[3] + Div(Sin(Div(w.time, 20) + w.phase[i]) * 3, 100)>>

\* C25: in a frame under preset 'explosion' the preset step takes the stored
\* position of each particle, already displaced by the frames before, and
\* moves it away from the origin by 2 * (sin(0.5 * time) * 0.5 + 0.5) >= 0
\* (within rounding), never toward it, and the frame writes the position that
\* follows from the displaced one; a particle at the origin is not moved.
C25_ExplosionPushesOutward ==
    [][(op' = "frame" /\ isPlaying /\ currentPreset = "explosion") =>
          /\ ExplosionAmount(time') >= 0
          /\ applyExplosionAnimation(<<0, 0, 0>>, 0, time') = <<0, 0, 0>>
          /\ \A i \in 1 .. particleCount :
                LET p == ParticleAt(position, i)
                    q == applyExplosionAnimation(p, i - 1, time')
                    after == [World EXCEPT !.time = time']
                IN  /\ Length(q) >= Length(p)
                    /\ Abs(Length(q) - Length(p) - ExplosionAmount(time')) <= 2
                    /\ ParticleAt(position', i) = WrittenFrom(after, i, q)]_vars

\* A second frame has run under the explosion preset.
C25_Witness ==
    op = "frame" /\ currentPreset = "explosion" /\ isPlaying /\ positionVersion >= 2

\* C28: at most one update callback of the monitor is pending at any moment;
\* start() while it is running changes nothing (no second loop, its callback
\* is not registered); and while it is stopped no update callback is pending
\* and no registered callback is notified.
C28_OneLoopAndQuietWhenStopped ==
    [][/\ Cardinality(performanceMonitor'.pending) <= 1
       /\ (op' = "monitor.start" /\ performanceMonitor.isRunning) =>
             Entered(performanceMonitor') = Entered(performanceMonitor)
       /\ ~performanceMonitor'.isRunning =>
             /\ performanceMonitor'.pending = {}
             /\ performanceMonitor'.invoked = <<>>]_vars

\* The monitor was stopped after its callbacks had been notified.
C28_Witness ==
    /\ op = "monitor.stop"
    /\ ~performanceMonitor.isRunning
    /\ performanceMonitor.frameCount >= 10
    /\ performanceMonitor.callbacks # <<>>

\* C30: after any sequence of updateProperties and reset calls the uniforms
\* of the particle material agree with the configuration of the engine:
\* globalSize is particleSize, shapeType is getShapeType(particleShape), and
\* the colour uniforms are baseColor and accentColor, for every particleSize
\* including 0.
C30_UniformsFollowConfiguration ==
    /\ uniforms.globalSize = particleSize
    /\ uniforms.shapeType = getShapeType(particleShape)
    /\ uniforms.baseColor = baseColor
    /\ uniforms.accentColor = accentColor

\* C26: after any sequence of createPreset, deletePreset, importPresets,
\* applyPreset and reloads from the storage, the six default presets are in
\* the store and flagged isDefault; and deletePreset on the key of a default
\* preset returns false and changes neither the store nor the saved presets.
C26_DefaultPresetsStay ==
    \A k \in DOMAIN defaultPresets :
        /\ k \in DOMAIN presetManager.presets
        /\ presetManager.presets[k].isDefault
        /\ LET done == deletePreset(presetManager, localStorage, k)
           IN  /\ ~done.manager.result.flag
               /\ done.manager.presets = presetManager.presets
               /\ done.storage = localStorage

\* A new manager has loaded presets of the user from the storage.
C26_Witness ==
    /\ op = "new PresetManager"
    /\ localStorage.stored
    /\ UserKeys(presetManager) # {}

\* The store of m keeps every entry of the store of the manager before, and
\* has the given number of entries more.
Grown(before, m, count) ==
    /\ \A k \in DOMAIN before.presets :
          k \in DOMAIN m.presets /\ m.presets[k] = before.presets[k]
    /\ Cardinality(DOMAIN m.presets) = Cardinality(DOMAIN before.presets) + count

\* C27: createPreset and importPresets never replace an entry of the store:
\* createPreset stores under a key that was absent, so the store grows by
\* one; importPresets that returns has stored that many entries more, one
\* per entry of the file that has a name and properties; and every entry the
\* store had is kept, also when importPresets throws.
C27_CreateAndImportOnlyAdd ==
    /\ \A name \in PresetNames :
          LET done == createPreset(presetManager, World, name, now).manager
          IN  /\ done.result.key \notin DOMAIN presetManager.presets
              /\ done.result.key \in DOMAIN done.presets
              /\ Grown(presetManager, done, 1)
    /\ \A data \in ImportFiles :
          LET done == importPresets(presetManager, localStorage, data, now).manager
              entries == IF "presets" \in DOMAIN data THEN data.presets ELSE <<>>
          IN  IF done.result.thrown
              THEN \A k \in DOMAIN presetManager.presets :
                      k \in DOMAIN done.presets
                      /\ done.presets[k] = presetManager.presets[k]
              ELSE /\ done.result.count =
                         Cardinality({i \in DOMAIN entries : Importable(entries[i])})
                   /\ Grown(presetManager, done, done.result.count)

\* An import has stored two presets of one name.
C27_Witness ==
    /\ op = "importPresets"
    /\ presetManager.result.count = 2
    /\ {"my_fx", "my_fx_1"} \subseteq DOMAIN presetManager.presets

\* C29: getCurrentPreset() returns null or a key that is in the store, after
\* any sequence of applyPreset, createPreset, deletePreset and importPresets.
C29_CurrentPresetIsStored ==
    getCurrentPreset(presetManager) = NoPreset
    \/ getCurrentPreset(presetManager) \in DOMAIN presetManager.presets

====
